---- MODULE Spec2Model ----
(***************************************************************************)
(* G0C: a compiler from a C++-like language to bytecode, and the stack     *)
(* virtual machine that runs the bytecode.                                 *)
(*                                                                         *)
(* The virtual machine (src/goc/vm.cpp) is modelled field by field; its    *)
(* handlers are operators over a record of the fields, threaded through    *)
(* the helpers (pop, push, readInt32, error) in the order the C++ code     *)
(* calls them.  The code generator (src/goc/codegen.cpp) is modelled as    *)
(* operators over a record of its buffers.  Bytecode is a sequence of      *)
(* bytes, operands are four little-endian bytes, integers are 32 bits.     *)
(***************************************************************************)
EXTENDS Integers, Sequences, FiniteSets, TLC

VARIABLES
    bytecode,            \* std::vector<uint8_t>, 1-based here
    instruction_pointer, \* size_t; a negative value stands for 2^64 - k
    halted,
    error_flag,
    error_message,
    stack,               \* integer operand stack, top is the last element
    memory,              \* static memory (sparse vector)
    call_stack,          \* sequence of CallFrame
    base_pointer,        \* size_t; a negative value stands for 2^64 - k
    heap,                \* heap memory (sparse vector)
    heap_blocks,         \* sequence of HeapBlock
    string_table,
    objects,
    next_object_id,
    cmp_flag,
    fpu_regs,            \* [0..7 -> float]
    fpu_top,
    float_memory,        \* float memory (sparse vector)
    instruction_count,
    max_stack_size,
    output,              \* what PRINT, PRINT_STR and FPRINT wrote to stdout
    input,               \* the lines still to be read from stdin
    calls,               \* the last call of a public method of the VM
    source,              \* what the bytecode was made from
    lexer,               \* the Lexer object of the compiler
    parser,              \* the Parser object of the compiler
    parsed               \* the Program parseProgram() returned

vars == <<bytecode, instruction_pointer, halted, error_flag, error_message,
          stack, memory, call_stack, base_pointer, heap, heap_blocks,
          string_table, objects, next_object_id, cmp_flag, fpu_regs, fpu_top,
          float_memory, instruction_count, max_stack_size, output, input,
          calls, source, lexer, parser, parsed>>

\* What the compiler holds
compiler == <<source, lexer, parser, parsed>>

\* The VirtualMachine object and the calls made on it
machine ==
    <<bytecode, instruction_pointer, halted, error_flag, error_message, stack,
      memory, call_stack, base_pointer, heap, heap_blocks, string_table,
      objects, next_object_id, cmp_flag, fpu_regs, fpu_top, float_memory,
      instruction_count, max_stack_size, output, input, calls>>

----------------------------------------------------------------------------
(* 32-bit integers.  TLC's integers are 32 bits wide and do not wrap, so   *)
(* the wrapping operations work on the four bytes of the operands.         *)

MinInt32 == -2147483647 - 1
MaxInt32 == 2147483647
Int32Range == MinInt32..MaxInt32

\* emitInt32: value & 0xFF, (value >> 8) & 0xFF, ... (arithmetic shift)
Int32Bytes(v) ==
    LET b0 == v % 256
        v1 == (v - b0) \div 256
        b1 == v1 % 256
        v2 == (v1 - b1) \div 256
        b2 == v2 % 256
        v3 == (v2 - b2) \div 256
        b3 == v3 % 256
    IN  <<b0, b1, b2, b3>>

\* memcpy of four little-endian bytes into an int32_t
BytesInt32(b) ==
    b[1] + 256 * b[2] + 65536 * b[3]
      + 16777216 * (IF b[4] >= 128 THEN b[4] - 256 ELSE b[4])

\* a + b on int32_t, two's complement
Add32(a, b) ==
    LET x == Int32Bytes(a)
        y == Int32Bytes(b)
        s1 == x[1] + y[1]
        s2 == x[2] + y[2] + (s1 \div 256)
        s3 == x[3] + y[3] + (s2 \div 256)
        s4 == x[4] + y[4] + (s3 \div 256)
    IN  BytesInt32(<<s1 % 256, s2 % 256, s3 % 256, s4 % 256>>)

\* a - b on int32_t, two's complement
Sub32(a, b) ==
    LET x == Int32Bytes(a)
        y == Int32Bytes(b)
        s1 == x[1] - y[1]
        s2 == x[2] - y[2] + (s1 \div 256)
        s3 == x[3] - y[3] + (s2 \div 256)
        s4 == x[4] - y[4] + (s3 \div 256)
    IN  BytesInt32(<<s1 % 256, s2 % 256, s3 % 256, s4 % 256>>)

\* a * b on int32_t, two's complement: the low four bytes of the product
Mul32(a, b) ==
    LET x == Int32Bytes(a)
        y == Int32Bytes(b)
        c1 == x[1] * y[1]
        c2 == x[1] * y[2] + x[2] * y[1] + (c1 \div 256)
        c3 == x[1] * y[3] + x[2] * y[2] + x[3] * y[1] + (c2 \div 256)
        c4 == x[1] * y[4] + x[2] * y[3] + x[3] * y[2] + x[4] * y[1]
                + (c3 \div 256)
    IN  BytesInt32(<<c1 % 256, c2 % 256, c3 % 256, c4 % 256>>)

\* a / b on int32_t for b # 0 and (a, b) # (INT_MIN, -1): truncates toward 0
TruncDiv(a, b) ==
    IF b > 0
    THEN IF a < 0 /\ a % b # 0 THEN (a \div b) + 1 ELSE a \div b
    ELSE IF b = MinInt32
         THEN IF a = MinInt32 THEN 1 ELSE 0
         ELSE LET nb == 0 - b
                  q == IF a < 0 /\ a % nb # 0 THEN (a \div nb) + 1
                       ELSE a \div nb
              IN  0 - q

\* a % b on int32_t for b # 0 and (a, b) # (INT_MIN, -1): sign of a
TruncRem(a, b) == a - b * TruncDiv(a, b)

\* INT_MIN / -1 and INT_MIN % -1 overflow: undefined behaviour.  The builds
\* either trap (x86 idiv raises SIGFPE and the process dies) or wrap.
DivOverflows(a, b) == a = MinInt32 /\ b = -1

----------------------------------------------------------------------------
(* Floats are modelled by the rational they hold, <<numerator,             *)
(* denominator>> in lowest terms with a positive denominator; rounding is  *)
(* not modelled.                                                           *)

RECURSIVE Gcd(_, _)
Gcd(a, b) == IF b = 0 THEN a ELSE Gcd(b, a % b)

Abs(a) == IF a < 0 THEN 0 - a ELSE a

Rat(n, d) ==
    LET g == Gcd(Abs(n), Abs(d))
        s == IF d < 0 THEN -1 ELSE 1
    IN  IF n = 0 THEN <<0, 1>> ELSE <<s * (n \div g), s * (d \div g)>>

FZero == <<0, 1>>
FAdd(a, b) == Rat(a[1] * b[2] + b[1] * a[2], a[2] * b[2])
FSub(a, b) == Rat(a[1] * b[2] - b[1] * a[2], a[2] * b[2])
FMul(a, b) == Rat(a[1] * b[1], a[2] * b[2])
FDiv(a, b) == Rat(a[1] * b[2], a[2] * b[1])
FNeg(a) == <<0 - a[1], a[2]>>
FLess(a, b) == a[1] * b[2] < b[1] * a[2]

\* static_cast<float>(int32_t)
IntToFloat(i) == <<i, 1>>

\* static_cast<int32_t>(float): truncation toward zero
FloatToInt(f) == TruncDiv(f[1], f[2])

RECURSIVE Pow2(_)
Pow2(n) == IF n = 0 THEN 1 ELSE 2 * Pow2(n - 1)

\* memcpy of four little-endian bytes into a float: IEEE-754 single, zero
\* and normal numbers
BytesFloat32(b) ==
    LET sign == IF b[4] >= 128 THEN -1 ELSE 1
        exp == (b[4] % 128) * 2 + (b[3] \div 128)
        mant == (b[3] % 128) * 65536 + b[2] * 256 + b[1]
        sig == 8388608 + mant
        e == exp - 150
    IN  IF exp = 0 /\ mant = 0 THEN FZero
        ELSE IF e >= 0 THEN Rat(sign * sig * Pow2(e), 1)
        ELSE Rat(sign * sig, Pow2(0 - e))

----------------------------------------------------------------------------
(* std::vector<int32_t> and std::vector<float> as sparse vectors: `size'   *)
(* cells, of which `cells' lists the ones that are not zero.               *)

NoCells == [i \in {} |-> 0]

NewVec(n) == [size |-> n, cells |-> NoCells]

VecGet(v, i, zero) == IF i \in DOMAIN v.cells THEN v.cells[i] ELSE zero

VecSet(v, i, x, zero) ==
    [v EXCEPT !.cells =
        IF x = zero
        THEN [j \in (DOMAIN @) \ {i} |-> @[j]]
        ELSE [j \in (DOMAIN @) \cup {i} |-> IF j = i THEN x ELSE @[j]]]

\* v.resize(n, 0)
VecResize(v, n) ==
    [size |-> n,
     cells |-> [j \in {k \in DOMAIN v.cells : k < n} |-> v.cells[j]]]

\* std::fill(v.begin(), v.end(), 0)
VecFill(v) == [v EXCEPT !.cells = NoCells]

----------------------------------------------------------------------------
(* Opcodes (enum class VMOpcode).                                          *)

PUSH == 1
POP == 2
ADD == 3
SUB == 4
MUL == 5
DIV == 6
MOD == 7
DUP == 8
SWAP == 9
PRINT == 10
PRINT_STR == 11
INPUT_STR == 12
INPUT == 13
JMP == 16
JZ == 17
JNZ == 18
JL == 19
JG == 20
JLE == 21
JGE == 22
CMP == 23
CALL == 24
RET == 25
LOAD == 32
STORE == 33
LOAD_BP == 34
STORE_BP == 35
PUSH_BP == 36
POP_BP == 37
PUSH_STR == 38
LOAD_INDIRECT == 39
STORE_INDIRECT == 40
ALLOC == 41
FREE == 42
FPUSH == 48
FPOP == 49
FADD == 50
FSUB == 51
FMUL == 52
FDIV == 53
FLOAD == 54
FSTORE == 55
FPRINT == 56
FCMP == 57
FNEG == 58
FDUP == 59
INT_TO_FP == 60
FP_TO_INT == 61
HALT == 255

----------------------------------------------------------------------------
(* The virtual machine.  VM is the object as a record of its fields; a     *)
(* handler maps the record before the call to the record after it, and a   *)
(* helper that returns a value returns [vm |-> ..., val |-> ...].          *)

VM ==
    [bytecode |-> bytecode, instruction_pointer |-> instruction_pointer,
     halted |-> halted, error_flag |-> error_flag,
     error_message |-> error_message, stack |-> stack, memory |-> memory,
     call_stack |-> call_stack, base_pointer |-> base_pointer, heap |-> heap,
     heap_blocks |-> heap_blocks, string_table |-> string_table,
     objects |-> objects, next_object_id |-> next_object_id,
     cmp_flag |-> cmp_flag, fpu_regs |-> fpu_regs, fpu_top |-> fpu_top,
     float_memory |-> float_memory, instruction_count |-> instruction_count,
     max_stack_size |-> max_stack_size, output |-> output, input |-> input,
     alive |-> calls.method # "killed"]

\* The outcomes of the two undefined behaviours of a step: the INT_MIN / -1
\* overflow of DIV and MOD, and the reference to a heap block that
\* allocateHeap keeps across a push_back on the block vector.
UBOutcomes == [div : {"wrap", "trap"}, realloc : BOOLEAN]

HEAP_START == 10000
MEMORY_SIZE == 1024
HEAP_SIZE == 4096
FLOAT_MEMORY_SIZE == 1024
FPU_SLOTS == 8

\* VirtualMachine::VirtualMachine, with the bytecode, the string table and
\* the standard input still to be supplied
NewVM ==
    [bytecode |-> <<>>, instruction_pointer |-> 0, halted |-> FALSE,
     error_flag |-> FALSE, error_message |-> "", stack |-> <<>>,
     memory |-> NewVec(MEMORY_SIZE), call_stack |-> <<>>, base_pointer |-> 0,
     heap |-> NewVec(HEAP_SIZE), heap_blocks |-> <<>>, string_table |-> <<>>,
     objects |-> {}, next_object_id |-> 1, cmp_flag |-> 0,
     fpu_regs |-> [i \in 0..(FPU_SLOTS - 1) |-> FZero], fpu_top |-> 0,
     float_memory |-> NewVec(FLOAT_MEMORY_SIZE), instruction_count |-> 0,
     max_stack_size |-> 0, output |-> <<>>, input |-> <<>>, alive |-> TRUE]

\* VirtualMachine::error
error(vm, msg) ==
    [vm EXCEPT !.error_flag = TRUE, !.error_message = msg, !.halted = TRUE]

\* VirtualMachine::push
push(vm, value) == [vm EXCEPT !.stack = Append(@, value)]

\* VirtualMachine::pop
pop(vm) ==
    IF vm.stack = <<>>
    THEN [vm |-> error(vm, "Stack underflow"), val |-> 0]
    ELSE [vm |-> [vm EXCEPT !.stack = SubSeq(@, 1, Len(@) - 1)],
          val |-> vm.stack[Len(vm.stack)]]

\* VirtualMachine::peek
peek(vm) == IF vm.stack = <<>> THEN 0 ELSE vm.stack[Len(vm.stack)]

\* static_cast<size_t>(int32_t) compared with a size: a negative value is
\* 2^64 - k, above every size
SizeGE(s, n) == s < 0 \/ s >= n

\* VirtualMachine::isHeapAddress
isHeapAddress(addr) == addr >= HEAP_START

\* VirtualMachine::storeMemory
storeMemory(vm, addr, value) ==
    IF addr < 0 THEN error(vm, "Negative memory address")
    ELSE IF isHeapAddress(addr)
    THEN LET heap_offset == addr - HEAP_START
             grown == IF heap_offset >= vm.heap.size
                      THEN VecResize(vm.heap, heap_offset + 1024)
                      ELSE vm.heap
         IN  [vm EXCEPT !.heap = VecSet(grown, heap_offset, value, 0)]
    ELSE LET grown == IF addr >= vm.memory.size
                      THEN VecResize(vm.memory, addr + 1024)
                      ELSE vm.memory
         IN  [vm EXCEPT !.memory = VecSet(grown, addr, value, 0)]

\* VirtualMachine::loadMemory
loadMemory(vm, addr) ==
    IF addr < 0
    THEN [vm |-> error(vm, "Negative memory address"), val |-> 0]
    ELSE IF isHeapAddress(addr)
    THEN LET heap_offset == addr - HEAP_START
         IN  IF heap_offset >= vm.heap.size
             THEN [vm |-> error(vm, "Heap memory access out of bounds"),
                   val |-> 0]
             ELSE [vm |-> vm, val |-> VecGet(vm.heap, heap_offset, 0)]
    ELSE IF addr >= vm.memory.size
         THEN [vm |-> error(vm, "Memory access out of bounds"), val |-> 0]
         ELSE [vm |-> vm, val |-> VecGet(vm.memory, addr, 0)]

\* The index of the first free block that fits, 0 when there is none (the
\* loop of allocateHeap)
FirstFit(blocks, size) ==
    LET fits == {i \in 1..Len(blocks) :
                    ~blocks[i].allocated /\ blocks[i].size >= size}
    IN  IF fits = {} THEN 0 ELSE CHOOSE i \in fits : \A j \in fits : i <= j

\* heap_blocks.push_back moves the vector when its size equals its
\* capacity.  The growth policy is the library's: every one of them moves a
\* vector of 1, 2 or 4 elements that never shrank.
Reallocates(n, ub) == n \in {1, 2, 4} \/ ub.realloc

\* heap.resize when a block ends beyond the heap vector
EnsureHeap(h, start, size) ==
    IF start + size > h.size THEN VecResize(h, start + size + 1024) ELSE h

\* A new block placed at the start of the last block
NewStartAtLast(blocks) ==
    IF blocks = <<>> THEN 0 ELSE blocks[Len(blocks)].start

\* allocateHeap: where a new block starts, the end of the last block
NewStart(blocks) ==
    IF blocks = <<>> THEN 0
    ELSE blocks[Len(blocks)].start + blocks[Len(blocks)].size

\* VirtualMachine::allocateHeap
allocateHeap(vm, size, ub) ==
    LET blocks == vm.heap_blocks
        i == FirstFit(blocks, size)
    IN  IF i # 0
        THEN LET block == blocks[i]
                 split == block.size > size
                 new_block == [start |-> block.start + size,
                               size |-> block.size - size,
                               allocated |-> FALSE]
                 \* after a move `block' refers to the old storage: the two
                 \* writes are lost and the reads see the old values
                 dangling == split /\ Reallocates(Len(blocks), ub)
                 written == [block EXCEPT !.size = size, !.allocated = TRUE]
                 kept == IF dangling THEN blocks
                         ELSE [blocks EXCEPT ![i] = written]
                 after == IF split THEN Append(kept, new_block) ELSE kept
             IN  [vm |-> [vm EXCEPT
                            !.heap_blocks = after,
                            !.heap = EnsureHeap(@, written.start,
                                                written.size)],
                  val |-> HEAP_START + written.start]
        ELSE LET new_start == NewStart(blocks)
                 new_block == [start |-> new_start, size |-> size,
                               allocated |-> TRUE]
             IN  [vm |-> [vm EXCEPT
                            !.heap = EnsureHeap(@, new_start, size),
                            !.heap_blocks = Append(@, new_block)],
                  val |-> HEAP_START + new_start]

\* The first block that starts at heap_offset, allocated or not
FindBlockAnyState(blocks, heap_offset) ==
    LET found == {i \in 1..Len(blocks) : blocks[i].start = heap_offset}
    IN  IF found = {} THEN 0 ELSE CHOOSE i \in found : \A j \in found : i <= j

\* The index of the block freeHeap finds, 0 when there is none
FindBlock(blocks, heap_offset) ==
    LET found == {i \in 1..Len(blocks) :
                     blocks[i].start = heap_offset /\ blocks[i].allocated}
    IN  IF found = {} THEN 0 ELSE CHOOSE i \in found : \A j \in found : i <= j

\* VirtualMachine::freeHeap
freeHeap(vm, addr) ==
    IF ~isHeapAddress(addr)
    THEN error(vm, "Attempting to free non-heap address")
    ELSE LET heap_offset == addr - HEAP_START
             i == FindBlock(vm.heap_blocks, heap_offset)
         IN  IF i = 0
             THEN error(vm, "Invalid heap address for free operation")
             ELSE LET block == vm.heap_blocks[i]
                      zeroed == {c \in DOMAIN vm.heap.cells :
                                    /\ c >= block.start
                                    /\ c < block.start + block.size}
                  IN  [vm EXCEPT
                         !.heap_blocks[i].allocated = FALSE,
                         !.heap.cells =
                             [c \in (DOMAIN @) \ zeroed |-> @[c]]]

\* VirtualMachine::readByte
readByte(vm) ==
    IF SizeGE(vm.instruction_pointer, Len(vm.bytecode))
    THEN [vm |-> error(vm, "Unexpected end of bytecode"), val |-> 0]
    ELSE [vm |-> [vm EXCEPT !.instruction_pointer = @ + 1],
          val |-> vm.bytecode[vm.instruction_pointer + 1]]

\* The four operand bytes at the instruction pointer
OperandBytes(vm) ==
    SubSeq(vm.bytecode, vm.instruction_pointer + 1,
           vm.instruction_pointer + 4)

\* VirtualMachine::readInt32
readInt32(vm) ==
    IF vm.instruction_pointer + 4 > Len(vm.bytecode)
    THEN [vm |-> error(vm, "Unexpected end of bytecode reading int32"),
          val |-> 0]
    ELSE [vm |-> [vm EXCEPT !.instruction_pointer = @ + 4],
          val |-> BytesInt32(OperandBytes(vm))]

\* VirtualMachine::readFloat32
readFloat32(vm) ==
    IF vm.instruction_pointer + 4 > Len(vm.bytecode)
    THEN [vm |-> error(vm, "Unexpected end of bytecode reading float32"),
          val |-> FZero]
    ELSE [vm |-> [vm EXCEPT !.instruction_pointer = @ + 4],
          val |-> BytesFloat32(OperandBytes(vm))]

\* What the VM writes to stdout, one item per write
OutInt(v) == [kind |-> "int", int |-> v, str |-> "", flt |-> FZero]
OutStr(s) == [kind |-> "str", int |-> 0, str |-> s, flt |-> FZero]
OutFloat(f) == [kind |-> "float", int |-> 0, str |-> "", flt |-> f]

\* VirtualMachine::printValue
printValue(vm, value) == [vm EXCEPT !.output = Append(@, OutInt(value))]

\* VirtualMachine::printString
printString(vm, str) == [vm EXCEPT !.output = Append(@, OutStr(str))]

\* A line of stdin: a number, or text that does not parse as a number
NumLine(v) == [isNum |-> TRUE, num |-> v, text |-> ToString(v)]
TextLine(s) == [isNum |-> FALSE, num |-> 0, text |-> s]

\* VirtualMachine::inputNumber: a failed extraction (end of input or text)
\* gives 0; the rest of the line is dropped either way
inputNumber(vm) ==
    IF vm.input = <<>> THEN [vm |-> vm, val |-> 0]
    ELSE [vm |-> [vm EXCEPT !.input = Tail(@)],
          val |-> IF Head(vm.input).isNum THEN Head(vm.input).num ELSE 0]

\* VirtualMachine::inputString
inputString(vm) ==
    IF vm.input = <<>> THEN [vm |-> vm, val |-> ""]
    ELSE [vm |-> [vm EXCEPT !.input = Tail(@)], val |-> Head(vm.input).text]

\* a % b of C++ on int, for b > 0: the sign follows a
CRem(a, b) == IF a >= 0 THEN a % b ELSE 0 - ((0 - a) % b)

\* fpush that decrements the top index without adding 8 first
fpushNoWrap(vm, value) ==
    LET top == CRem(vm.fpu_top - 1, 8)
    IN  [vm EXCEPT !.fpu_top = top, !.fpu_regs[top] = value]

\* VirtualMachine::fpush
fpush(vm, value) ==
    LET top == CRem(vm.fpu_top - 1 + 8, 8)
    IN  [vm EXCEPT !.fpu_top = top, !.fpu_regs[top] = value]

\* VirtualMachine::fpop
fpop(vm) ==
    [vm |-> [vm EXCEPT !.fpu_regs[vm.fpu_top] = FZero,
                       !.fpu_top = CRem(vm.fpu_top + 1, 8)],
     val |-> vm.fpu_regs[vm.fpu_top]]

\* VirtualMachine::fpeek
fpeek(vm) == vm.fpu_regs[vm.fpu_top]

----------------------------------------------------------------------------
(* VirtualMachine::executeInstruction, one operator per case of the        *)
(* switch.  Each takes the VM after readByte has consumed the opcode.      *)

ExecPUSH(vm) ==
    LET r == readInt32(vm) IN push(r.vm, r.val)

ExecPOP(vm) == pop(vm).vm

ExecADD(vm) ==
    LET b == pop(vm)
        a == pop(b.vm)
    IN  push(a.vm, Add32(a.val, b.val))

ExecSUB(vm) ==
    LET b == pop(vm)
        a == pop(b.vm)
    IN  push(a.vm, Sub32(a.val, b.val))

ExecMUL(vm) ==
    LET b == pop(vm)
        a == pop(b.vm)
    IN  push(a.vm, Mul32(a.val, b.val))

\* DIV that takes the quotient by zero to be 0 and goes on
ExecDIVZeroQuotient(vm, ub) ==
    LET b == pop(vm)
        a == pop(b.vm)
    IN  IF b.val = 0 THEN push(a.vm, 0)
        ELSE IF DivOverflows(a.val, b.val)
        THEN IF ub.div = "trap" THEN [a.vm EXCEPT !.alive = FALSE]
             ELSE push(a.vm, MinInt32)
        ELSE push(a.vm, TruncDiv(a.val, b.val))

ExecDIV(vm, ub) ==
    LET b == pop(vm)
        a == pop(b.vm)
    IN  IF b.val = 0 THEN error(a.vm, "Division by zero")
        ELSE IF DivOverflows(a.val, b.val)
        THEN IF ub.div = "trap" THEN [a.vm EXCEPT !.alive = FALSE]
             ELSE push(a.vm, MinInt32)
        ELSE push(a.vm, TruncDiv(a.val, b.val))

ExecMOD(vm, ub) ==
    LET b == pop(vm)
        a == pop(b.vm)
    IN  IF b.val = 0 THEN error(a.vm, "Modulo by zero")
        ELSE IF DivOverflows(a.val, b.val)
        THEN IF ub.div = "trap" THEN [a.vm EXCEPT !.alive = FALSE]
             ELSE push(a.vm, 0)
        ELSE push(a.vm, TruncRem(a.val, b.val))

ExecDUP(vm) == push(vm, peek(vm))

ExecSWAP(vm) ==
    IF Len(vm.stack) < 2 THEN error(vm, "Stack underflow in SWAP")
    ELSE LET a == pop(vm)
             b == pop(a.vm)
         IN  push(push(b.vm, a.val), b.val)

ExecPRINT(vm) ==
    LET value == pop(vm) IN printValue(value.vm, value.val)

ExecPRINT_STR(vm) ==
    LET str_id == pop(vm)
    IN  IF str_id.val >= 0 /\ str_id.val < Len(vm.string_table)
        THEN printString(str_id.vm, vm.string_table[str_id.val + 1])
        ELSE error(str_id.vm, "Invalid string ID")

ExecINPUT(vm) ==
    LET value == inputNumber(vm) IN push(value.vm, value.val)

ExecINPUT_STR(vm) ==
    LET str == inputString(vm)
        appended == [str.vm EXCEPT !.string_table = Append(@, str.val)]
    IN  push(appended, Len(appended.string_table) - 1)

ExecPUSH_STR(vm) ==
    LET str_id == readInt32(vm) IN push(str_id.vm, str_id.val)

ExecJMP(vm) ==
    LET addr == readInt32(vm)
    IN  [addr.vm EXCEPT !.instruction_pointer = addr.val]

ExecJZ(vm) ==
    LET addr == readInt32(vm)
        value == pop(addr.vm)
    IN  IF value.val = 0
        THEN [value.vm EXCEPT !.instruction_pointer = addr.val]
        ELSE value.vm

ExecJNZ(vm) ==
    LET addr == readInt32(vm)
        value == pop(addr.vm)
    IN  IF value.val # 0
        THEN [value.vm EXCEPT !.instruction_pointer = addr.val]
        ELSE value.vm

ExecCMP(vm) ==
    LET b == pop(vm)
        a == pop(b.vm)
    IN  [a.vm EXCEPT !.cmp_flag = IF a.val < b.val THEN -1
                                  ELSE IF a.val > b.val THEN 1 ELSE 0]

\* JL, JG, JLE, JGE: jump when the compare flag satisfies the condition
ExecJcc(vm, taken) ==
    LET addr == readInt32(vm)
    IN  IF taken THEN [addr.vm EXCEPT !.instruction_pointer = addr.val]
        ELSE addr.vm

ExecCALL(vm) ==
    LET addr == readInt32(vm)
        frame == [return_address |-> addr.vm.instruction_pointer,
                  base_pointer |-> addr.vm.base_pointer]
    IN  [addr.vm EXCEPT !.call_stack = Append(@, frame),
                        !.instruction_pointer = addr.val]

ExecRET(vm) ==
    IF vm.call_stack = <<>> THEN error(vm, "Return without call")
    ELSE LET frame == vm.call_stack[Len(vm.call_stack)]
         IN  [vm EXCEPT !.call_stack = SubSeq(@, 1, Len(@) - 1),
                        !.instruction_pointer = frame.return_address,
                        !.base_pointer = frame.base_pointer]

ExecPUSH_BP(vm) ==
    LET pushed == push(vm, vm.base_pointer)
    IN  [pushed EXCEPT !.base_pointer = Len(pushed.stack)]

ExecPOP_BP(vm) ==
    IF vm.base_pointer = 0 \/ vm.base_pointer < 0
         \/ vm.base_pointer > Len(vm.stack)
    THEN error(vm, "Invalid base pointer in POP_BP")
    ELSE [vm EXCEPT !.base_pointer = vm.stack[vm.base_pointer]]

ExecLOAD(vm) ==
    LET addr == readInt32(vm)
        value == loadMemory(addr.vm, addr.val)
    IN  push(value.vm, value.val)

ExecSTORE(vm) ==
    LET addr == pop(vm)
        value == pop(addr.vm)
    IN  storeMemory(value.vm, addr.val, value.val)

ExecLOAD_BP(vm) ==
    LET offset == readInt32(vm)
        addr == offset.vm.base_pointer + offset.val
    IN  IF addr < 0 \/ addr >= Len(offset.vm.stack)
        THEN error(offset.vm, "BP-relative load out of bounds")
        ELSE push(offset.vm, offset.vm.stack[addr + 1])

ExecSTORE_BP(vm) ==
    LET offset == readInt32(vm)
        value == pop(offset.vm)
        addr == value.vm.base_pointer + offset.val
        old == value.vm.stack
        grown == IF addr >= Len(old)
                 THEN old \o [i \in 1..(addr + 1 - Len(old)) |-> 0]
                 ELSE old
    IN  IF addr < 0
        THEN error(value.vm,
                   "BP-relative store out of bounds (negative address)")
        ELSE [value.vm EXCEPT !.stack = [grown EXCEPT ![addr + 1] = value.val]]

ExecLOAD_INDIRECT(vm) ==
    LET addr == pop(vm)
        value == loadMemory(addr.vm, addr.val)
    IN  push(value.vm, value.val)

ExecSTORE_INDIRECT(vm) ==
    LET addr == pop(vm)
        value == pop(addr.vm)
    IN  storeMemory(value.vm, addr.val, value.val)

ExecALLOC(vm, ub) ==
    LET size == pop(vm)
        addr == allocateHeap(size.vm, size.val, ub)
    IN  IF size.val <= 0 THEN error(size.vm, "Invalid allocation size")
        ELSE IF addr.val < 0 THEN error(addr.vm, "Heap allocation failed")
        ELSE push(addr.vm, addr.val)

ExecFREE(vm) ==
    LET addr == pop(vm)
    IN  IF addr.val < 0 THEN error(addr.vm, "Invalid address for free")
        ELSE freeHeap(addr.vm, addr.val)

ExecFPUSH(vm) ==
    LET val == readFloat32(vm) IN fpush(val.vm, val.val)

ExecFPOP(vm) == fpop(vm).vm

ExecFADD(vm) ==
    LET b == fpop(vm)
        a == fpop(b.vm)
    IN  fpush(a.vm, FAdd(a.val, b.val))

ExecFSUB(vm) ==
    LET b == fpop(vm)
        a == fpop(b.vm)
    IN  fpush(a.vm, FSub(a.val, b.val))

ExecFMUL(vm) ==
    LET b == fpop(vm)
        a == fpop(b.vm)
    IN  fpush(a.vm, FMul(a.val, b.val))

ExecFDIV(vm) ==
    LET b == fpop(vm)
        a == fpop(b.vm)
    IN  IF b.val = FZero THEN error(a.vm, "FPU division by zero")
        ELSE fpush(a.vm, FDiv(a.val, b.val))

ExecFLOAD(vm) ==
    LET addr == readInt32(vm)
    IN  IF addr.val < 0 THEN error(addr.vm, "Negative FPU memory address")
        ELSE IF addr.val >= addr.vm.float_memory.size
        THEN error(addr.vm, "FPU memory access out of bounds")
        ELSE fpush(addr.vm, VecGet(addr.vm.float_memory, addr.val, FZero))

ExecFSTORE(vm) ==
    LET addr == readInt32(vm)
        val == fpop(addr.vm)
        grown == IF addr.val >= val.vm.float_memory.size
                 THEN VecResize(val.vm.float_memory, addr.val + 256)
                 ELSE val.vm.float_memory
    IN  IF addr.val < 0 THEN error(val.vm, "Negative FPU memory address")
        ELSE [val.vm EXCEPT
                !.float_memory = VecSet(grown, addr.val, val.val, FZero)]

ExecFPRINT(vm) ==
    LET val == fpop(vm)
    IN  [val.vm EXCEPT !.output = Append(@, OutFloat(val.val))]

ExecFCMP(vm) ==
    LET b == fpop(vm)
        a == fpop(b.vm)
    IN  [a.vm EXCEPT !.cmp_flag = IF FLess(a.val, b.val) THEN -1
                                  ELSE IF FLess(b.val, a.val) THEN 1 ELSE 0]

ExecFNEG(vm) ==
    LET val == fpop(vm) IN fpush(val.vm, FNeg(val.val))

ExecFDUP(vm) == fpush(vm, fpeek(vm))

ExecINT_TO_FP(vm) ==
    LET ival == pop(vm) IN fpush(ival.vm, IntToFloat(ival.val))

ExecFP_TO_INT(vm) ==
    LET fval == fpop(vm) IN push(fval.vm, FloatToInt(fval.val))

ExecHALT(vm) == [vm EXCEPT !.halted = TRUE]

\* VirtualMachine::executeInstruction
executeInstruction(vm0, ub) ==
    LET opcode_byte == readByte(vm0)
        op == opcode_byte.val
        vm == opcode_byte.vm
    IN  CASE op = PUSH -> ExecPUSH(vm)
          [] op = POP -> ExecPOP(vm)
          [] op = ADD -> ExecADD(vm)
          [] op = SUB -> ExecSUB(vm)
          [] op = MUL -> ExecMUL(vm)
          [] op = DIV -> ExecDIV(vm, ub)
          [] op = MOD -> ExecMOD(vm, ub)
          [] op = DUP -> ExecDUP(vm)
          [] op = SWAP -> ExecSWAP(vm)
          [] op = PRINT -> ExecPRINT(vm)
          [] op = PRINT_STR -> ExecPRINT_STR(vm)
          [] op = INPUT -> ExecINPUT(vm)
          [] op = INPUT_STR -> ExecINPUT_STR(vm)
          [] op = PUSH_STR -> ExecPUSH_STR(vm)
          [] op = JMP -> ExecJMP(vm)
          [] op = JZ -> ExecJZ(vm)
          [] op = JNZ -> ExecJNZ(vm)
          [] op = CMP -> ExecCMP(vm)
          [] op = JL -> ExecJcc(vm, vm.cmp_flag < 0)
          [] op = JG -> ExecJcc(vm, vm.cmp_flag > 0)
          [] op = JLE -> ExecJcc(vm, vm.cmp_flag <= 0)
          [] op = JGE -> ExecJcc(vm, vm.cmp_flag >= 0)
          [] op = CALL -> ExecCALL(vm)
          [] op = RET -> ExecRET(vm)
          [] op = PUSH_BP -> ExecPUSH_BP(vm)
          [] op = POP_BP -> ExecPOP_BP(vm)
          [] op = LOAD -> ExecLOAD(vm)
          [] op = STORE -> ExecSTORE(vm)
          [] op = LOAD_BP -> ExecLOAD_BP(vm)
          [] op = STORE_BP -> ExecSTORE_BP(vm)
          [] op = LOAD_INDIRECT -> ExecLOAD_INDIRECT(vm)
          [] op = STORE_INDIRECT -> ExecSTORE_INDIRECT(vm)
          [] op = ALLOC -> ExecALLOC(vm, ub)
          [] op = FREE -> ExecFREE(vm)
          [] op = FPUSH -> ExecFPUSH(vm)
          [] op = FPOP -> ExecFPOP(vm)
          [] op = FADD -> ExecFADD(vm)
          [] op = FSUB -> ExecFSUB(vm)
          [] op = FMUL -> ExecFMUL(vm)
          [] op = FDIV -> ExecFDIV(vm)
          [] op = FLOAD -> ExecFLOAD(vm)
          [] op = FSTORE -> ExecFSTORE(vm)
          [] op = FPRINT -> ExecFPRINT(vm)
          [] op = FCMP -> ExecFCMP(vm)
          [] op = FNEG -> ExecFNEG(vm)
          [] op = FDUP -> ExecFDUP(vm)
          [] op = INT_TO_FP -> ExecINT_TO_FP(vm)
          [] op = FP_TO_INT -> ExecFP_TO_INT(vm)
          [] op = HALT -> ExecHALT(vm)
          [] OTHER -> error(vm, "Unknown opcode: 0x" \o ToString(op))

\* step() that returns at once on an error only, not on halted
stepUnlessError(vm, ub) ==
    IF vm.error_flag THEN vm
    ELSE IF SizeGE(vm.instruction_pointer, Len(vm.bytecode))
    THEN error(vm, "Instruction pointer out of bounds")
    ELSE LET done == executeInstruction(vm, ub)
             counted == [done EXCEPT !.instruction_count = @ + 1]
         IN  IF ~done.alive THEN done
             ELSE IF Len(counted.stack) > counted.max_stack_size
             THEN [counted EXCEPT !.max_stack_size = Len(counted.stack)]
             ELSE counted

\* VirtualMachine::step
step(vm, ub) ==
    IF vm.halted \/ vm.error_flag THEN vm
    ELSE IF SizeGE(vm.instruction_pointer, Len(vm.bytecode))
    THEN error(vm, "Instruction pointer out of bounds")
    ELSE LET done == executeInstruction(vm, ub)
             counted == [done EXCEPT !.instruction_count = @ + 1]
         IN  IF ~done.alive THEN done
             ELSE IF Len(counted.stack) > counted.max_stack_size
             THEN [counted EXCEPT !.max_stack_size = Len(counted.stack)]
             ELSE counted

\* VirtualMachine::reset
reset(vm) ==
    [vm EXCEPT !.instruction_pointer = 0, !.halted = FALSE,
               !.error_flag = FALSE, !.error_message = "", !.stack = <<>>,
               !.call_stack = <<>>, !.objects = {}, !.base_pointer = 0,
               !.next_object_id = 1, !.cmp_flag = 0, !.instruction_count = 0,
               !.max_stack_size = 0, !.fpu_top = 0,
               !.fpu_regs = [i \in 0..(FPU_SLOTS - 1) |-> FZero],
               !.float_memory = VecFill(@), !.memory = VecFill(@)]

\* VirtualMachine::loadBytecode
loadBytecode(vm, code) == reset([vm EXCEPT !.bytecode = code])

----------------------------------------------------------------------------
(* The abstract syntax tree (src/goc/parser.h).  A node is a record with   *)
(* its kind and its fields; NullNode is the null pointer.  The text of a   *)
(* literal is a sequence of characters.                                    *)

NullNode == [kind |-> "NULL"]
Literal(value, litType) ==
    [kind |-> "LITERAL", value |-> value, litType |-> litType]
Identifier(name) == [kind |-> "IDENTIFIER", name |-> name]
UnaryOp(op, operand) == [kind |-> "UNARY_OP", op |-> op, operand |-> operand]
BinaryOp(op, left, right) ==
    [kind |-> "BINARY_OP", op |-> op, left |-> left, right |-> right]
CallExpr(callee, args) == [kind |-> "CALL", callee |-> callee, args |-> args]
ExprStmt(expr) == [kind |-> "EXPR_STMT", expr |-> expr]
ReturnStmt(expr) == [kind |-> "RETURN", expr |-> expr]
BlockStmt(statements) == [kind |-> "BLOCK", statements |-> statements]
VarDecl(typeTokens, varName, init) ==
    [kind |-> "VAR_DECL", typeTokens |-> typeTokens, varName |-> varName,
     init |-> init, isPointer |-> FALSE, isReference |-> FALSE,
     isArray |-> FALSE]
\* params is a sequence of <<type tokens, name>>
FunctionDecl(funcName, params, body) ==
    [kind |-> "FUNC_DECL", funcName |-> funcName, params |-> params,
     body |-> body]
Program(top) == [kind |-> "PROGRAM", top |-> top]
MemberAccess(object, member, arrow) ==
    [kind |-> "MEMBER_ACCESS", object |-> object, member |-> member,
     arrow |-> arrow]
ArraySubscript(array, index) ==
    [kind |-> "ARRAY_SUBSCRIPT", array |-> array, index |-> index]
IfStmt(cond, thenBranch, elseBranch) ==
    [kind |-> "IF", cond |-> cond, thenBranch |-> thenBranch,
     elseBranch |-> elseBranch]
WhileStmt(cond, body) == [kind |-> "WHILE", cond |-> cond, body |-> body]
ForStmt(init, cond, post, body) ==
    [kind |-> "FOR", init |-> init, cond |-> cond, post |-> post,
     body |-> body]

----------------------------------------------------------------------------
(* The code generator.  CG is the CodeGenerator object as a record of its  *)
(* fields; every gen* operator maps the record before the call to the      *)
(* record after it.                                                        *)

\* CodeGenerator::CodeGenerator
NewCG ==
    [bytecode |-> <<>>, labels |-> [n \in {} |-> 0], label_counter |-> 0,
     string_table |-> <<>>, symbols |-> [n \in {} |-> 0],
     next_memory_addr |-> 0, class_names |-> {}]

\* A Label that operator[] of the label table creates
DefaultLabel == [address |-> 0, defined |-> FALSE, fixup_positions |-> <<>>]

LabelOf(cg, label) ==
    IF label \in DOMAIN cg.labels THEN cg.labels[label] ELSE DefaultLabel

SetLabel(cg, label, l) ==
    [cg EXCEPT !.labels = (label :> l) @@ @]

\* CodeGenerator::currentAddress
currentAddress(cg) == Len(cg.bytecode)

\* The code before a node is generated: the generator is evaluated where a
\* node begins, not inside the node
Generated(cg) == Len(cg.bytecode) >= 0

\* CodeGenerator::emit
emit(cg, op) == [cg EXCEPT !.bytecode = Append(@, op)]

\* CodeGenerator::emitInt32
emitInt32(cg, value) == [cg EXCEPT !.bytecode = @ \o Int32Bytes(value)]

\* emit(op) followed by emitInt32(value)
emitOp32(cg, op, value) ==
    [cg EXCEPT !.bytecode = Append(@, op) \o Int32Bytes(value)]

\* CodeGenerator::emitInt32At
emitInt32At(cg, pos, value) ==
    LET b == Int32Bytes(value)
    IN  [cg EXCEPT !.bytecode =
            [i \in 1..Len(@) |->
                IF i > pos /\ i <= pos + 4 THEN b[i - pos] ELSE @[i]]]

\* CodeGenerator::makeLabel: the name it returns
LabelName(cg, prefix) == prefix \o "_" \o ToString(cg.label_counter)

\* CodeGenerator::makeLabel: the generator it leaves
makeLabel(cg, prefix) == [cg EXCEPT !.label_counter = @ + 1]

\* CodeGenerator::defineLabel
defineLabel(cg, label) ==
    [cg EXCEPT !.labels =
        (label :> [LabelOf(cg, label) EXCEPT
                      !.address = currentAddress(cg), !.defined = TRUE]) @@ @]

\* emitJump that notes the position of the opcode as the fixup position
emitJumpAtOpcode(cg, op, label) ==
    [cg EXCEPT
        !.bytecode = Append(@, op) \o Int32Bytes(0),
        !.labels = (label :> [LabelOf(cg, label) EXCEPT
                                !.fixup_positions =
                                    Append(@, currentAddress(cg))]) @@ @]

\* CodeGenerator::emitJump
\* emit(op); the address after the opcode is noted; emitInt32(0)
emitJump(cg, op, label) ==
    [cg EXCEPT
        !.bytecode = Append(@, op) \o Int32Bytes(0),
        !.labels = (label :> [LabelOf(cg, label) EXCEPT
                                !.fixup_positions =
                                    Append(@, currentAddress(cg) + 1)]) @@ @]

RECURSIVE PatchAll(_, _, _)
PatchAll(cg, positions, address) ==
    IF positions = <<>> THEN cg
    ELSE PatchAll(emitInt32At(cg, Head(positions), address),
                  Tail(positions), address)

RECURSIVE FixupOver(_, _)
FixupOver(cg, names) ==
    IF names = {} THEN cg
    ELSE LET name == CHOOSE n \in names : TRUE
             label == cg.labels[name]
             patched == IF label.defined
                        THEN PatchAll(cg, label.fixup_positions,
                                      label.address)
                        ELSE cg
         IN  FixupOver(patched, names \ {name})

\* CodeGenerator::fixupLabels
fixupLabels(cg) == FixupOver(cg, DOMAIN cg.labels)

RECURSIVE IndexOf(_, _, _)
IndexOf(seq, x, i) ==
    IF i > Len(seq) THEN 0
    ELSE IF seq[i] = x THEN i ELSE IndexOf(seq, x, i + 1)

\* CodeGenerator::addString: the index it returns
StringId(cg, str) ==
    IF IndexOf(cg.string_table, str, 1) # 0
    THEN IndexOf(cg.string_table, str, 1) - 1
    ELSE Len(cg.string_table)

\* CodeGenerator::addString: the generator it leaves
addString(cg, str) ==
    IF IndexOf(cg.string_table, str, 1) # 0 THEN cg
    ELSE [cg EXCEPT !.string_table = Append(@, str)]

\* addString(str), then op with the index of str as its operand
emitString(cg, op, str) ==
    emitOp32(addString(cg, str), op, StringId(cg, str))

\* CodeGenerator::mangleFunctionName(name, param_count)
mangleFunctionName(name, param_count) ==
    IF param_count = 0 THEN name
    ELSE name \o "_P" \o ToString(param_count)

\* A Symbol; the fields a caller does not set are false
Symbol(type, offset, is_array, is_heap_allocated, is_float) ==
    [type |-> type, offset |-> offset, is_array |-> is_array,
     is_heap_allocated |-> is_heap_allocated, is_float |-> is_float]

SetSymbol(cg, name, sym) ==
    [cg EXCEPT !.symbols = (name :> sym) @@ @]

\* CodeGenerator::addVariable
addVariable(cg, name, offset, is_array, is_heap_allocated, is_float) ==
    SetSymbol(cg, name,
              Symbol("VARIABLE", offset, is_array, is_heap_allocated,
                     is_float))

\* CodeGenerator::findSymbol: hasSymbol is `sym != nullptr'
hasSymbol(cg, name) == name \in DOMAIN cg.symbols
findSymbol(cg, name) == cg.symbols[name]

Digits == <<"0", "1", "2", "3", "4", "5", "6", "7", "8", "9">>
isdigit(c) == IndexOf(Digits, c, 1) # 0

RECURSIVE StoIFrom(_, _, _)
StoIFrom(chars, i, acc) ==
    IF i > Len(chars) \/ ~isdigit(chars[i]) THEN acc
    ELSE LET d == IndexOf(Digits, chars[i], 1) - 1
         IN  IF acc > (MaxInt32 - d) \div 10 THEN -1
             ELSE StoIFrom(chars, i + 1, acc * 10 + d)

\* std::stoi on the text of a decimal literal; -1 when it throws
\* out_of_range
StoI(chars) == StoIFrom(chars, 1, 0)

\* CodeGenerator::isFloatLiteralStr
isFloatLiteralStr(chars) ==
    /\ chars # <<>>
    /\ ~(Len(chars) >= 2 /\ chars[1] = "0" /\ chars[2] \in {"x", "X"})
    /\ \E i \in 1..Len(chars) : chars[i] \in {".", "e", "E"}

\* CodeGenerator::isFloatType
isFloatType(typeTokens) ==
    \E i \in 1..Len(typeTokens) : typeTokens[i] \in {"float", "double"}

RECURSIVE isFloatExpr(_, _)
\* CodeGenerator::isFloatExpr
isFloatExpr(cg, node) ==
    CASE node.kind = "LITERAL" ->
            IF node.litType \in {"STRING", "CHARACTER"} THEN FALSE
            ELSE isFloatLiteralStr(node.value)
      [] node.kind = "IDENTIFIER" ->
            hasSymbol(cg, node.name) /\ findSymbol(cg, node.name).is_float
      [] node.kind = "BINARY_OP" ->
            IF node.op = "="
            THEN /\ node.left.kind = "IDENTIFIER"
                 /\ hasSymbol(cg, node.left.name)
                 /\ findSymbol(cg, node.left.name).is_float
            ELSE isFloatExpr(cg, node.left) \/ isFloatExpr(cg, node.right)
      [] node.kind = "UNARY_OP" -> isFloatExpr(cg, node.operand)
      [] OTHER -> FALSE

RECURSIVE genExpression(_, _)
RECURSIVE genExpressions(_, _)
RECURSIVE genBinaryOp(_, _)
RECURSIVE genUnaryOp(_, _)
RECURSIVE genCall(_, _)
RECURSIVE genStatement(_, _)
RECURSIVE genStatements(_, _)

\* CodeGenerator::genLiteral, for string literals and decimal integer
\* literals that std::stoi accepts
genLiteral(cg, lit) ==
    IF lit.litType = "STRING" THEN emitString(cg, PUSH_STR, lit.value)
    ELSE emitOp32(cg, PUSH, StoI(lit.value))

\* CodeGenerator::genIdentifier
genIdentifier(cg, id) ==
    IF id.name \in {"std", "cout", "cin", "endl", "cerr"}
    THEN emitOp32(cg, PUSH, 0)
    ELSE IF ~hasSymbol(cg, id.name) THEN emitOp32(cg, PUSH, 0)
    ELSE LET sym == findSymbol(cg, id.name)
         IN  CASE sym.type = "VARIABLE" ->
                    IF sym.is_float THEN emitOp32(cg, FLOAD, sym.offset)
                    ELSE IF sym.is_heap_allocated
                    THEN emitOp32(cg, LOAD, sym.offset)
                    ELSE IF sym.is_array THEN emitOp32(cg, PUSH, sym.offset)
                    ELSE emitOp32(cg, LOAD, sym.offset)
               [] sym.type = "PARAMETER" -> emitOp32(cg, LOAD_BP, sym.offset)
               [] OTHER -> cg

\* The base address of an array subscript: the four-way choice that
\* genBinaryOp, genUnaryOp and genArraySubscript repeat
genArrayBase(cg, sym) ==
    IF sym.type = "PARAMETER" /\ sym.is_array
    THEN emitOp32(cg, LOAD_BP, sym.offset)
    ELSE IF sym.type = "VARIABLE" /\ sym.is_heap_allocated
    THEN emitOp32(cg, LOAD, sym.offset)
    ELSE emitOp32(cg, PUSH, sym.offset)

\* print the value an expression left: FPRINT or PRINT
genPrintOf(cg, node) ==
    IF isFloatExpr(cg, node) THEN emit(cg, FPRINT) ELSE emit(cg, PRINT)

\* The leftmost operand of a chain of binary operators
RECURSIVE Leftmost(_)
Leftmost(node) ==
    IF node.kind = "BINARY_OP" THEN Leftmost(node.left) ELSE node

\* genBinaryOp, integer < > <= >=: a conditional jump, push 0 or 1
genCompareTo(cg, jump, true_label, end_label) ==
    defineLabel(
        emitOp32(
            defineLabel(
                emitJump(emitOp32(emitJump(cg, jump, true_label), PUSH, 0),
                         JMP, end_label),
                true_label),
            PUSH, 1),
        end_label)

\* genBinaryOp, integer < > <= >=: CMP, then the two labels are made
genCompare(cg, jump) ==
    genCompareTo(makeLabel(makeLabel(emit(cg, CMP), "cmp_true"), "cmp_end"),
                 jump, LabelName(cg, "cmp_true"),
                 LabelName(makeLabel(cg, "cmp_true"), "cmp_end"))

\* genBinaryOp, integer == and !=: DUP, JZ, then push ne or eq
genEqualityTo(cg, ne, eq, true_label, end_label) ==
    defineLabel(
        emitOp32(
            emit(defineLabel(
                     emitJump(emitOp32(emit(emitJump(emit(cg, DUP), JZ,
                                                     true_label),
                                            POP),
                                       PUSH, ne),
                              JMP, end_label),
                     true_label),
                 POP),
            PUSH, eq),
        end_label)

\* genBinaryOp, integer == and !=: SUB, then the two labels are made
genEquality(cg, ne, eq) ==
    genEqualityTo(makeLabel(makeLabel(emit(cg, SUB), "cmp_true"), "cmp_end"),
                  ne, eq, LabelName(cg, "cmp_true"),
                  LabelName(makeLabel(cg, "cmp_true"), "cmp_end"))

\* genBinaryOp, float operands and targets: a value that is not a float is
\* converted after it is evaluated
genFloatOperand(cg, isFloat) == IF ~isFloat THEN emit(cg, INT_TO_FP) ELSE cg

\* genBinaryOp, x = v: the value is on the stack and is stored in x
genStoreIn(cg, name, value) ==
    IF ~hasSymbol(cg, name) THEN cg
    ELSE IF findSymbol(cg, name).is_float
    THEN emitOp32(emit(genFloatOperand(cg, isFloatExpr(cg, value)), FDUP),
                  FSTORE, findSymbol(cg, name).offset)
    ELSE IF findSymbol(cg, name).type = "PARAMETER"
    THEN emitOp32(emit(cg, DUP), STORE_BP, findSymbol(cg, name).offset)
    ELSE emit(emitOp32(emit(cg, DUP), PUSH, findSymbol(cg, name).offset),
              STORE)

\* genBinaryOp, a[i] = v and cin >> a[i]: the value is on the stack and
\* is stored in the element
genStoreElement(cg, sub) ==
    IF sub.array.kind = "IDENTIFIER" /\ hasSymbol(cg, sub.array.name)
    THEN emit(emit(genExpression(
                       genArrayBase(cg, findSymbol(cg, sub.array.name)),
                       sub.index),
                   ADD),
              STORE_INDIRECT)
    ELSE cg

\* genBinaryOp, the assignment x = v
genAssign(cg, binop) ==
    IF binop.left.kind = "UNARY_OP" /\ binop.left.op = "*"
    THEN emit(genExpression(emit(genExpression(cg, binop.right), DUP),
                            binop.left.operand),
              STORE_INDIRECT)
    ELSE IF binop.left.kind = "ARRAY_SUBSCRIPT"
    THEN genStoreElement(emit(genExpression(cg, binop.right), DUP),
                         binop.left)
    ELSE IF binop.left.kind = "IDENTIFIER"
    THEN genStoreIn(genExpression(cg, binop.right), binop.left.name,
                    binop.right)
    ELSE cg

\* genBinaryOp, the operator <<: the right operand is printed
genShiftLeftPrint(cg, right) ==
    IF right.kind = "LITERAL" /\ right.litType = "STRING"
    THEN emitOp32(emit(emitString(cg, PUSH_STR, right.value), PRINT_STR),
                  PUSH, 0)
    ELSE emitOp32(genPrintOf(genExpression(cg, right), right), PUSH, 0)

\* genBinaryOp, the operator <<
genShiftLeft(cg, binop) ==
    genShiftLeftPrint(
        IF Leftmost(binop.left).kind = "IDENTIFIER"
             /\ Leftmost(binop.left).name = "std::cout"
             /\ binop.left.kind = "BINARY_OP"
        THEN genBinaryOp(cg, binop.left) ELSE cg,
        binop.right)

\* genBinaryOp, the operator >>: the number read is stored in the operand
genShiftRightStore(cg, right) ==
    IF right.kind = "IDENTIFIER" /\ hasSymbol(cg, right.name)
    THEN IF findSymbol(cg, right.name).type = "PARAMETER"
         THEN emitOp32(cg, STORE_BP, findSymbol(cg, right.name).offset)
         ELSE emit(emitOp32(cg, PUSH, findSymbol(cg, right.name).offset),
                   STORE)
    ELSE IF right.kind = "ARRAY_SUBSCRIPT" THEN genStoreElement(cg, right)
    ELSE cg

\* genBinaryOp, the operator >>
genShiftRight(cg, binop) ==
    emitOp32(genShiftRightStore(emit(cg, INPUT), binop.right), PUSH, 0)

\* genBinaryOp, float == and !=: the two labels are made, then FSUB,
\* FP_TO_INT, DUP, JZ
genFloatEquality(cg, eq) ==
    genEqualityTo(emit(emit(makeLabel(makeLabel(cg, "fcmp_true"), "fcmp_end"),
                            FSUB),
                       FP_TO_INT),
                  IF eq THEN 0 ELSE 1, IF eq THEN 1 ELSE 0,
                  LabelName(cg, "fcmp_true"),
                  LabelName(makeLabel(cg, "fcmp_true"), "fcmp_end"))

\* genBinaryOp, float < > <= >=: the two labels are made, then FCMP and a
\* conditional jump
genFloatCompare(cg, jump) ==
    genCompareTo(emit(makeLabel(makeLabel(cg, "fcmp_true"), "fcmp_end"),
                      FCMP),
                 jump, LabelName(cg, "fcmp_true"),
                 LabelName(makeLabel(cg, "fcmp_true"), "fcmp_end"))

\* genBinaryOp, float operands: both are on the FPU stack, op is applied
genFloatOp(cg, op) ==
    CASE op = "+" -> emit(cg, FADD)
      [] op = "-" -> emit(cg, FSUB)
      [] op = "*" -> emit(cg, FMUL)
      [] op = "/" -> emit(cg, FDIV)
      [] op = "==" -> genFloatEquality(cg, TRUE)
      [] op = "!=" -> genFloatEquality(cg, FALSE)
      [] op = "<" -> genFloatCompare(cg, JL)
      [] op = ">" -> genFloatCompare(cg, JG)
      [] op = "<=" -> genFloatCompare(cg, JLE)
      [] OTHER -> genFloatCompare(cg, JGE)

\* genBinaryOp, float arithmetic and float comparisons
genFloatBinary(cg, binop, leftIsFloat, rightIsFloat) ==
    genFloatOp(
        genFloatOperand(
            genExpression(genFloatOperand(genExpression(cg, binop.left),
                                          leftIsFloat),
                          binop.right),
            rightIsFloat),
        binop.op)

\* genBinaryOp, integer operands: both are on the stack, op is applied
genIntBinary(operands, op) ==
    CASE ~Generated(operands) -> operands
      [] op = "+" -> emit(operands, ADD)
      [] op = "-" -> emit(operands, SUB)
      [] op = "*" -> emit(operands, MUL)
      [] op = "/" -> emit(operands, DIV)
      [] op = "%" -> emit(operands, MOD)
      [] op = "<" -> genCompare(operands, JL)
      [] op = ">" -> genCompare(operands, JG)
      [] op = "<=" -> genCompare(operands, JLE)
      [] op = ">=" -> genCompare(operands, JGE)
      [] op = "==" -> genEquality(operands, 0, 1)
      [] op = "!=" -> genEquality(operands, 1, 0)
      [] OTHER -> emitOp32(emit(emit(operands, POP), POP), PUSH, 0)

\* CodeGenerator::genBinaryOp
genBinaryOp(cg, binop) ==
    IF binop.op = "=" THEN genAssign(cg, binop)
    ELSE IF binop.op = "<<" THEN genShiftLeft(cg, binop)
    ELSE IF binop.op = ">>" THEN genShiftRight(cg, binop)
    ELSE LET leftIsFloat == isFloatExpr(cg, binop.left)
             rightIsFloat == isFloatExpr(cg, binop.right)
         IN  IF (leftIsFloat \/ rightIsFloat)
                  /\ binop.op \in {"+", "-", "*", "/", "<", ">", "<=", ">=",
                                   "==", "!="}
             THEN genFloatBinary(cg, binop, leftIsFloat, rightIsFloat)
             ELSE genIntBinary(genExpression(genExpression(cg, binop.left),
                                             binop.right),
                               binop.op)

\* genUnaryOp, &x and &a[i]
genAddressOf(cg, operand) ==
    IF operand.kind = "IDENTIFIER" /\ hasSymbol(cg, operand.name)
         /\ findSymbol(cg, operand.name).type = "VARIABLE"
    THEN emitOp32(cg, PUSH, findSymbol(cg, operand.name).offset)
    ELSE IF operand.kind = "ARRAY_SUBSCRIPT"
              /\ operand.array.kind = "IDENTIFIER"
              /\ hasSymbol(cg, operand.array.name)
    THEN emit(genExpression(
                  genArrayBase(cg, findSymbol(cg, operand.array.name)),
                  operand.index),
              ADD)
    ELSE emitOp32(cg, PUSH, 0)

\* genUnaryOp, the other operators: the operand is on the stack; only
\* `-' emits code
genSign(cg, unop) ==
    IF unop.op = "-"
    THEN IF isFloatExpr(cg, unop.operand) THEN emit(cg, FNEG)
         ELSE emit(emit(emitOp32(cg, PUSH, 0), SWAP), SUB)
    ELSE cg

\* CodeGenerator::genUnaryOp
genUnaryOp(cg, unop) ==
    CASE unop.op = "new" ->
            IF unop.operand.kind = "ARRAY_SUBSCRIPT"
            THEN emit(genExpression(cg, unop.operand.index), ALLOC)
            ELSE emit(emitOp32(cg, PUSH, 1), ALLOC)
      [] unop.op = "delete" ->
            emitOp32(emit(genExpression(cg, unop.operand), FREE), PUSH, 0)
      [] unop.op = "&" -> genAddressOf(cg, unop.operand)
      [] unop.op = "*" ->
            emit(genExpression(cg, unop.operand), LOAD_INDIRECT)
      [] OTHER -> genSign(genExpression(cg, unop.operand), unop)

\* CodeGenerator::genArraySubscript
genArraySubscript(cg, sub) ==
    IF sub.array.kind = "IDENTIFIER" /\ hasSymbol(cg, sub.array.name)
    THEN emit(emit(genExpression(
                       genArrayBase(cg, findSymbol(cg, sub.array.name)),
                       sub.index),
                   ADD),
              LOAD_INDIRECT)
    ELSE cg

\* genCall, the cleanup after CALL: arg_count times SWAP ; POP
RECURSIVE genCleanup(_, _)
genCleanup(cg, arg_count) ==
    IF arg_count <= 0 THEN cg
    ELSE genCleanup(emit(emit(cg, SWAP), POP), arg_count - 1)

\* genCall, print(...): every argument is evaluated and printed
RECURSIVE genPrintArgs(_, _)
genPrintArgs(cg, args) ==
    IF args = <<>> THEN cg
    ELSE genPrintArgs(genPrintOf(genExpression(cg, Head(args)), Head(args)),
                      Tail(args))

\* genCall, println(...): the value an argument left is printed
genPrintlnOf(cg, arg) ==
    IF arg.kind = "LITERAL" /\ arg.litType = "STRING"
    THEN emit(cg, PRINT_STR) ELSE genPrintOf(cg, arg)

\* genCall, println(...)
RECURSIVE genPrintlnArgs(_, _)
genPrintlnArgs(cg, args) ==
    IF args = <<>> THEN cg
    ELSE genPrintlnArgs(genPrintlnOf(genExpression(cg, Head(args)),
                                     Head(args)),
                        Tail(args))

\* CodeGenerator::genCall
genCall(cg, call) ==
    IF call.callee.kind # "IDENTIFIER" THEN cg
    ELSE IF call.callee.name \in cg.class_names THEN emitOp32(cg, PUSH, 0)
    ELSE IF call.callee.name = "print"
    THEN emitOp32(genPrintArgs(cg, call.args), PUSH, 0)
    ELSE IF call.callee.name = "println"
    THEN emitOp32(emit(emitString(genPrintlnArgs(cg, call.args), PUSH, "\n"),
                       PRINT_STR),
                  PUSH, 0)
    ELSE genCleanup(
             emitJump(genExpressions(cg, call.args), CALL,
                      mangleFunctionName(call.callee.name, Len(call.args))),
             Len(call.args))

\* CodeGenerator::genExpression
genExpression(cg, node) ==
    CASE ~Generated(cg) \/ node.kind = "NULL" -> cg
      [] node.kind = "BINARY_OP" -> genBinaryOp(cg, node)
      [] node.kind = "UNARY_OP" -> genUnaryOp(cg, node)
      [] node.kind = "CALL" -> genCall(cg, node)
      [] node.kind = "LITERAL" -> genLiteral(cg, node)
      [] node.kind = "IDENTIFIER" -> genIdentifier(cg, node)
      [] node.kind = "ARRAY_SUBSCRIPT" -> genArraySubscript(cg, node)
      [] OTHER -> emitOp32(cg, PUSH, 0)

\* the loop `for (arg : args) genExpression(arg)'
genExpressions(cg, nodes) ==
    IF nodes = <<>> THEN cg
    ELSE genExpressions(genExpression(cg, Head(nodes)), Tail(nodes))

\* genVarDecl: the initializer's value is stored in the variable at addr
genVarStore(value, decl, is_float_var, addr) ==
    IF is_float_var
    THEN emitOp32(IF ~isFloatExpr(value, decl.init)
                  THEN emit(value, INT_TO_FP) ELSE value,
                  FSTORE, addr)
    ELSE emit(emitOp32(value, PUSH, addr), STORE)

\* genVarDecl: the variable is in the symbol table; its initializer, if
\* any, is evaluated
genVarInit(added, decl, is_float_var, addr) ==
    IF decl.init.kind = "NULL" THEN added
    ELSE genVarStore(genExpression(added, decl.init), decl, is_float_var,
                     addr)

\* CodeGenerator::genVarDecl
genVarDecl(cg, decl) ==
    LET is_pointer == decl.isPointer
                        \/ \E i \in 1..Len(decl.typeTokens) :
                              decl.typeTokens[i] = "*"
        is_heap_array == /\ is_pointer
                         /\ decl.init.kind = "UNARY_OP"
                         /\ decl.init.op = "new"
        is_array == decl.isArray \/ is_heap_array
        is_float_var == ~is_pointer /\ ~is_array
                          /\ isFloatType(decl.typeTokens)
        addr == cg.next_memory_addr
    IN  genVarInit(addVariable([cg EXCEPT !.next_memory_addr = @ + 1],
                               decl.varName, addr, is_array, is_heap_array,
                               is_float_var),
                   decl, is_float_var, addr)

\* genFunctionDecl: the offset of parameter i (counted from 0) of
\* param_count
\* The offset one cell nearer to the frame: -(param_count - i)
ParamOffsetNearer(param_count, i) == 0 - (param_count - i)

ParamOffset(param_count, i) == 0 - (param_count - i + 1)

\* genFunctionDecl: the loop that binds the parameters
RECURSIVE genParams(_, _, _)
genParams(cg, params, i) ==
    IF i >= Len(params) THEN cg
    ELSE LET type_tokens == params[i + 1][1]
             is_pointer == \E k \in 1..Len(type_tokens) :
                              type_tokens[k] \in {"*", "[]"}
             sym == Symbol("PARAMETER", ParamOffset(Len(params), i),
                           is_pointer, FALSE, FALSE)
         IN  genParams(SetSymbol(cg, params[i + 1][2], sym), params, i + 1)

\* CodeGenerator::genFunctionDecl(func, nameOverride)
genFunctionDeclAs(cg, func, nameOverride) ==
    emit(emit(genStatement(
                  genParams(emit(defineLabel(cg, nameOverride), PUSH_BP),
                            func.params, 0),
                  func.body),
              POP_BP),
         RET)

\* CodeGenerator::genFunctionDecl(func)
genFunctionDecl(cg, func) ==
    genFunctionDeclAs(cg, func,
                      mangleFunctionName(func.funcName, Len(func.params)))

\* CodeGenerator::genBlock
genBlock(cg, block) == genStatements(cg, block.statements)

\* genIf, with its two labels made
genIfTo(cg, ifstmt, else_label, end_label) ==
    defineLabel(
        genStatement(
            defineLabel(
                emitJump(
                    genStatement(
                        emitJump(genExpression(cg, ifstmt.cond), JZ,
                                 else_label),
                        ifstmt.thenBranch),
                    JMP, end_label),
                else_label),
            ifstmt.elseBranch),
        end_label)

\* CodeGenerator::genIf
genIf(cg, ifstmt) ==
    genIfTo(makeLabel(makeLabel(cg, "else"), "endif"), ifstmt,
            LabelName(cg, "else"), LabelName(makeLabel(cg, "else"), "endif"))

\* genWhile, with its two labels made
genWhileTo(cg, whilestmt, loop_start, loop_end) ==
    defineLabel(
        emitJump(
            genStatement(
                emitJump(genExpression(defineLabel(cg, loop_start),
                                       whilestmt.cond),
                         JZ, loop_end),
                whilestmt.body),
            JMP, loop_start),
        loop_end)

\* CodeGenerator::genWhile
genWhile(cg, whilestmt) ==
    genWhileTo(makeLabel(makeLabel(cg, "while_start"), "while_end"),
               whilestmt, LabelName(cg, "while_start"),
               LabelName(makeLabel(cg, "while_start"), "while_end"))

\* the value an expression left is dropped: FPOP or POP
genPop(cg, node) ==
    IF isFloatExpr(cg, node) THEN emit(cg, FPOP) ELSE emit(cg, POP)

\* an expression whose value is dropped
genDiscard(cg, node) == genPop(genExpression(cg, node), node)

\* genFor: the condition, if any, and the jump out of the loop
genForCond(cg, forstmt, loop_end) ==
    IF forstmt.cond.kind # "NULL"
    THEN emitJump(genExpression(cg, forstmt.cond), JZ, loop_end)
    ELSE cg

\* genFor: the increment, if any
genForPost(cg, forstmt) ==
    IF Generated(cg) /\ forstmt.post.kind # "NULL"
    THEN genDiscard(cg, forstmt.post) ELSE cg

\* genFor, with its two labels made
genForTo(cg, forstmt, loop_start, loop_end) ==
    defineLabel(
        emitJump(
            genForPost(
                genStatement(
                    genForCond(
                        defineLabel(genStatement(cg, forstmt.init),
                                    loop_start),
                        forstmt, loop_end),
                    forstmt.body),
                forstmt),
            JMP, loop_start),
        loop_end)

\* CodeGenerator::genFor
genFor(cg, forstmt) ==
    genForTo(makeLabel(makeLabel(cg, "for_start"), "for_end"), forstmt,
             LabelName(cg, "for_start"),
             LabelName(makeLabel(cg, "for_start"), "for_end"))

\* CodeGenerator::genReturn
genReturn(cg, ret) ==
    emit(emit(genExpression(cg, ret.expr), POP_BP), RET)

\* CodeGenerator::genStatement
genStatement(cg, node) ==
    CASE ~Generated(cg) \/ node.kind = "NULL" -> cg
      [] node.kind = "VAR_DECL" -> genVarDecl(cg, node)
      [] node.kind = "FUNC_DECL" -> genFunctionDecl(cg, node)
      [] node.kind = "BLOCK" -> genBlock(cg, node)
      [] node.kind = "IF" -> genIf(cg, node)
      [] node.kind = "WHILE" -> genWhile(cg, node)
      [] node.kind = "FOR" -> genFor(cg, node)
      [] node.kind = "RETURN" -> genReturn(cg, node)
      [] node.kind = "EXPR_STMT" ->
            IF node.expr.kind = "NULL" THEN cg ELSE genDiscard(cg, node.expr)
      [] OTHER -> cg

\* the loop `for (stmt : statements) genStatement(stmt)'
genStatements(cg, nodes) ==
    IF nodes = <<>> THEN cg
    ELSE genStatements(genStatement(cg, Head(nodes)), Tail(nodes))

\* genProgram: the names of the classes and structs at top level
ClassNames(top) ==
    {top[i].className : i \in {k \in 1..Len(top) :
                                  top[k].kind = "CLASS_DECL"}}
      \cup {top[i].structName : i \in {k \in 1..Len(top) :
                                          top[k].kind = "STRUCT_DECL"}}

\* genProgram: the member functions of a class, under `Class::name'
RECURSIVE genMembers(_, _, _)
genMembers(cg, cls, members) ==
    IF members = <<>> THEN cg
    ELSE genMembers(
             IF Head(members).kind = "FUNC_DECL"
             THEN genFunctionDeclAs(
                      cg, Head(members),
                      cls.className \o "::" \o Head(members).funcName)
             ELSE cg,
             cls, Tail(members))

\* genProgram: the loop over the top-level nodes
RECURSIVE genTop(_, _)
genTop(cg, top) ==
    IF top = <<>> THEN cg
    ELSE genTop(IF Head(top).kind = "CLASS_DECL"
                THEN genMembers(cg, Head(top), Head(top).members)
                ELSE genStatement(cg, Head(top)),
                Tail(top))

\* genProgram: the class names are collected
genClassNames(cg, top) ==
    [cg EXCEPT !.class_names = @ \cup ClassNames(top)]

\* CodeGenerator::genProgram
genProgram(cg, prog) ==
    genTop(genClassNames(emit(emitJump(cg, CALL, "main"), HALT), prog.top),
           prog.top)

\* CodeGenerator::generate
generate(cg, program) ==
    fixupLabels(
        genProgram([cg EXCEPT !.bytecode = <<>>,
                              !.symbols = [n \in {} |-> 0],
                              !.next_memory_addr = 0, !.label_counter = 0],
                   program))

\* The bytecode and the string table of a program compiled by a new
\* generator
Compile(program) == generate(NewCG, program)

----------------------------------------------------------------------------
(* The lexer (src/goc/lexer.cpp).  The source text is a sequence of        *)
(* characters, each a string of length 1; LX is the Lexer object as a      *)
(* record of its fields.  A read* operator maps the lexer before the call  *)
(* to the lexer after it and the token returned.                           *)

RECURSIVE Str(_)
\* std::string of a sequence of characters
Str(chars) == IF chars = <<>> THEN "" ELSE Head(chars) \o Str(Tail(chars))

\* std::string::substr(pos, count) of the text; a count below zero is a
\* size_t near 2^64, which substr cuts at the end of the text
Substr(text, pos, count) ==
    Str(SubSeq(text, pos + 1,
               IF count < 0 \/ pos + count > Len(text) THEN Len(text)
               ELSE pos + count))

Letters ==
    {"a", "b", "c", "d", "e", "f", "g", "h", "i", "j", "k", "l", "m", "n",
     "o", "p", "q", "r", "s", "t", "u", "v", "w", "x", "y", "z", "A", "B",
     "C", "D", "E", "F", "G", "H", "I", "J", "K", "L", "M", "N", "O", "P",
     "Q", "R", "S", "T", "U", "V", "W", "X", "Y", "Z"}

isalpha(c) == c \in Letters
isalnum(c) == isalpha(c) \/ isdigit(c)

\* Lexer::Lexer: the keyword tables
Keywords ==
    {"if", "else", "while", "for", "do", "switch", "case", "default",
     "break", "continue", "return", "goto", "try", "catch", "throw", "this",
     "virtual", "explicit", "friend", "inline", "operator", "template",
     "typename", "mutable", "namespace", "using", "dynamic_cast",
     "static_cast", "const_cast", "reinterpret_cast", "typeid", "new",
     "delete", "sizeof", "asm", "export", "wchar_t", "bool", "true", "false"}

TypeKeywords ==
    {"void", "char", "short", "int", "long", "float", "double", "signed",
     "unsigned", "class", "struct", "union", "enum", "typedef"}

AccessSpecifiers == {"public", "private", "protected"}
StorageClasses == {"static", "extern", "auto", "register"}
TypeQualifiers == {"const", "volatile"}

single_operators ==
    {"+", "-", "*", "/", "=", "!", "&", "|", "^", "%", "~", "?"}

\* The two-character keys of multi_char_operators
multi_char_operators ==
    {"++", "--", "+=", "-=", "*=", "/=", "%=", "==", "!=", "&&", "||", "&=",
     "|=", "^=", "<<", ">>"}

\* Lexer::Lexer
Lexer(text) ==
    [source |-> text, position |-> 0, line |-> 1, column |-> 1,
     tokens |-> <<>>, error_flag |-> FALSE]

\* Token::Token
Token(type, value, line, column) ==
    [type |-> type, value |-> value, line |-> line, column |-> column]

\* What a read* method returns with
Read(lx, type, value, line, column) ==
    [lx |-> lx, tok |-> Token(type, value, line, column)]

\* position + k < source.length() && source[position + k] == c
CharIs(lx, k, c) ==
    lx.position + k < Len(lx.source) /\ lx.source[lx.position + k + 1] = c

\* position < source.length() && source[position] is one of cs
CharIn(lx, cs) ==
    lx.position < Len(lx.source) /\ lx.source[lx.position + 1] \in cs

\* Lexer::advance
LexerAdvance(lx) ==
    IF lx.position < Len(lx.source)
    THEN [lx EXCEPT !.position = @ + 1, !.column = @ + 1]
    ELSE lx

\* line++; column = 1;
NewLine(lx) == [lx EXCEPT !.line = @ + 1, !.column = 1]

\* Lexer::reportError
reportError(lx) == [lx EXCEPT !.error_flag = TRUE]

RECURSIVE skipWhitespace(_)
\* Lexer::skipWhitespace
skipWhitespace(lx) ==
    IF CharIn(lx, {" ", "\t", "\r"}) THEN skipWhitespace(LexerAdvance(lx))
    ELSE IF CharIs(lx, 0, "\n")
    THEN skipWhitespace(LexerAdvance(NewLine(lx)))
    ELSE lx

\* readNumber: the sign after the exponent letter
ScanExponentSign(lx) ==
    IF CharIn(lx, {"+", "-"}) THEN LexerAdvance(lx) ELSE lx

RECURSIVE ScanNumber(_, _, _)
\* readNumber: the loop over digits, dot and exponent
ScanNumber(lx, has_dot, has_exponent) ==
    IF lx.position < Len(lx.source) /\ isdigit(lx.source[lx.position + 1])
    THEN ScanNumber(LexerAdvance(lx), has_dot, has_exponent)
    ELSE IF CharIs(lx, 0, ".") /\ ~has_dot /\ ~has_exponent
    THEN ScanNumber(LexerAdvance(lx), TRUE, has_exponent)
    ELSE IF CharIn(lx, {"e", "E"}) /\ ~has_exponent
    THEN ScanNumber(ScanExponentSign(LexerAdvance(lx)), has_dot, TRUE)
    ELSE lx

\* readNumber: the second and third letter of a suffix UL, ULL, LL
ScanLongSuffix(lx) ==
    IF CharIn(lx, {"l", "L"})
    THEN (IF CharIn(LexerAdvance(lx), {"l", "L"})
          THEN LexerAdvance(LexerAdvance(lx))
          ELSE LexerAdvance(lx))
    ELSE lx

\* readNumber: the suffix
ScanSuffix(lx) ==
    IF CharIn(lx, {"f", "F", "l", "L", "u", "U"})
    THEN ScanLongSuffix(LexerAdvance(lx))
    ELSE lx

\* The token of the text between the position of `from' and the position
\* of `to', placed where `from' stands
Lexeme(from, to, type) ==
    Read(to, type,
         Substr(from.source, from.position, to.position - from.position),
         from.line, from.column)

\* Lexer::readNumber
readNumber(lx) == Lexeme(lx, ScanSuffix(ScanNumber(lx, FALSE, FALSE)), "NUMBER")

RECURSIVE ScanIdentifier(_)
ScanIdentifier(lx) ==
    IF lx.position < Len(lx.source)
          /\ (isalnum(lx.source[lx.position + 1])
                 \/ lx.source[lx.position + 1] = "_")
    THEN ScanIdentifier(LexerAdvance(lx))
    ELSE lx

\* Lexer::readIdentifier
readIdentifier(lx) == Lexeme(lx, ScanIdentifier(lx), "IDENTIFIER")

RECURSIVE ScanQuoted(_, _, _, _)
\* readString and readCharacter: the loop up to the closing quote; only
\* readString counts lines
ScanQuoted(lx, quote, escape, lines) ==
    IF lx.position >= Len(lx.source) THEN lx
    ELSE IF escape THEN ScanQuoted(LexerAdvance(lx), quote, FALSE, lines)
    ELSE IF CharIs(lx, 0, "\\")
    THEN ScanQuoted(LexerAdvance(lx), quote, TRUE, lines)
    ELSE IF CharIs(lx, 0, quote) THEN lx
    ELSE IF lines /\ CharIs(lx, 0, "\n")
    THEN ScanQuoted(LexerAdvance(NewLine(lx)), quote, FALSE, lines)
    ELSE ScanQuoted(LexerAdvance(lx), quote, FALSE, lines)

\* readString and readCharacter: the closing quote is skipped, or the
\* error is reported
CloseQuoted(lx) ==
    IF lx.position < Len(lx.source) THEN LexerAdvance(lx)
    ELSE reportError(lx)

\* readString and readCharacter: the token
Quoted(from, to, type) ==
    Read(to, type,
         Substr(from.source, from.position + 1,
                to.position - from.position - 2),
         from.line, from.column)

\* Lexer::readString
readString(lx) ==
    Quoted(lx, CloseQuoted(ScanQuoted(LexerAdvance(lx), "\"", FALSE, TRUE)),
           "STRING")

\* Lexer::readCharacter
readCharacter(lx) ==
    Quoted(lx, CloseQuoted(ScanQuoted(LexerAdvance(lx), "'", FALSE, FALSE)),
           "CHARACTER")

RECURSIVE ScanLine(_)
\* The loop up to the end of the line
ScanLine(lx) ==
    IF lx.position < Len(lx.source) /\ ~CharIs(lx, 0, "\n")
    THEN ScanLine(LexerAdvance(lx))
    ELSE lx

\* readSingleLineComment: the token
LineComment(from, to) ==
    Read(to, "COMMENT",
         Substr(from.source, from.position + 2,
                to.position - from.position - 2),
         from.line, from.column)

\* Lexer::readSingleLineComment
readSingleLineComment(lx) ==
    LineComment(lx, ScanLine(LexerAdvance(LexerAdvance(lx))))

RECURSIVE ScanComment(_)
\* readMultiLineComment: the loop up to the closing */
ScanComment(lx) ==
    IF lx.position >= Len(lx.source) THEN lx
    ELSE IF CharIs(lx, 0, "\n") THEN ScanComment(LexerAdvance(NewLine(lx)))
    ELSE IF CharIs(lx, 0, "*") /\ CharIs(lx, 1, "/")
    THEN LexerAdvance(LexerAdvance(lx))
    ELSE ScanComment(LexerAdvance(lx))

\* readMultiLineComment: the check after the loop
CloseComment(lx) ==
    IF lx.position >= Len(lx.source) THEN reportError(lx) ELSE lx

\* readMultiLineComment: the token
Comment(from, to) ==
    Read(to, "COMMENT",
         Substr(from.source, from.position + 2,
                to.position - from.position - 4),
         from.line, from.column)

\* Lexer::readMultiLineComment
readMultiLineComment(lx) ==
    Comment(lx, CloseComment(ScanComment(LexerAdvance(LexerAdvance(lx)))))

\* The token of the next n characters
Operator(lx, n, type, value) ==
    Read(IF n = 3 THEN LexerAdvance(LexerAdvance(LexerAdvance(lx)))
         ELSE IF n = 2 THEN LexerAdvance(LexerAdvance(lx))
         ELSE LexerAdvance(lx),
         type, value, lx.line, lx.column)

\* Lexer::readOperator
readOperator(lx) ==
    IF CharIs(lx, 0, "<")
    THEN (IF CharIs(lx, 1, "<") /\ CharIs(lx, 2, "=")
          THEN Operator(lx, 3, "OPERATOR", "<<=")
          ELSE IF CharIs(lx, 1, "<")
          THEN Operator(lx, 2, "LEFT_SHIFT", "<<")
          ELSE IF CharIs(lx, 1, "=")
          THEN Operator(lx, 2, "LESS_EQUAL", "<=")
          ELSE Operator(lx, 1, "LESS", "<"))
    ELSE IF CharIs(lx, 0, ">")
    THEN (IF CharIs(lx, 1, ">") /\ CharIs(lx, 2, "=")
          THEN Operator(lx, 3, "OPERATOR", ">>=")
          ELSE IF CharIs(lx, 1, ">")
          THEN Operator(lx, 2, "RIGHT_SHIFT", ">>")
          ELSE IF CharIs(lx, 1, "=")
          THEN Operator(lx, 2, "GREATER_EQUAL", ">=")
          ELSE Operator(lx, 1, "GREATER", ">"))
    ELSE IF CharIs(lx, 0, "-")
    THEN (IF CharIs(lx, 1, ">") /\ CharIs(lx, 2, "*")
          THEN Operator(lx, 3, "ARROW_STAR", "->*")
          ELSE IF CharIs(lx, 1, ">") THEN Operator(lx, 2, "ARROW", "->")
          ELSE IF CharIs(lx, 1, "-") THEN Operator(lx, 2, "OPERATOR", "--")
          ELSE IF CharIs(lx, 1, "=") THEN Operator(lx, 2, "OPERATOR", "-=")
          ELSE Operator(lx, 1, "OPERATOR", "-"))
    ELSE IF CharIs(lx, 0, ":")
    THEN (IF CharIs(lx, 1, ":")
          THEN Operator(lx, 2, "SCOPE_RESOLUTION", "::")
          ELSE Operator(lx, 1, "COLON", ":"))
    ELSE IF CharIs(lx, 0, ".")
    THEN (IF CharIs(lx, 1, ".") /\ CharIs(lx, 2, ".")
          THEN Operator(lx, 3, "ELLIPSIS", "...")
          ELSE IF CharIs(lx, 1, "*") THEN Operator(lx, 2, "DOT_STAR", ".*")
          ELSE Operator(lx, 1, "DOT", "."))
    ELSE IF lx.position + 1 < Len(lx.source)
              /\ Substr(lx.source, lx.position, 2) \in multi_char_operators
    THEN Operator(lx, 2, "OPERATOR", Substr(lx.source, lx.position, 2))
    ELSE Operator(lx, 1, "OPERATOR", lx.source[lx.position + 1])

\* readPunctuation: the kinds of the punctuation characters
Punctuation ==
    [c \in {"(", ")", "{", "}", "[", "]", ",", ";", ":", "."} |->
        CASE c = "(" -> "LEFT_PAREN" [] c = ")" -> "RIGHT_PAREN"
          [] c = "{" -> "LEFT_BRACE" [] c = "}" -> "RIGHT_BRACE"
          [] c = "[" -> "LEFT_BRACKET" [] c = "]" -> "RIGHT_BRACKET"
          [] c = "," -> "COMMA" [] c = ";" -> "SEMICOLON"
          [] c = ":" -> "COLON" [] c = "." -> "DOT"]

\* Lexer::readPunctuation
readPunctuation(lx) ==
    IF CharIs(lx, 0, ":") /\ CharIs(lx, 1, ":")
    THEN Operator(lx, 2, "SCOPE_RESOLUTION", "::")
    ELSE IF CharIn(lx, DOMAIN Punctuation)
    THEN Operator(lx, 1, Punctuation[lx.source[lx.position + 1]],
                  lx.source[lx.position + 1])
    ELSE Operator(reportError(lx), 1, "UNKNOWN", lx.source[lx.position + 1])

\* Lexer::readPreprocessor
readPreprocessor(lx) == Lexeme(lx, ScanLine(LexerAdvance(lx)), "PREPROCESSOR")

\* Lexer::categorizeKeyword
categorizeKeyword(value, line, column) ==
    Token(IF value \in AccessSpecifiers THEN "ACCESS_SPECIFIER"
          ELSE IF value \in TypeKeywords THEN "TYPE_SPECIFIER"
          ELSE IF value \in Keywords THEN "KEYWORD"
          ELSE IF value \in StorageClasses THEN "STORAGE_CLASS"
          ELSE IF value \in TypeQualifiers THEN "TYPE_QUALIFIER"
          ELSE "IDENTIFIER",
          value, line, column)

\* getNextToken: the identifier read is categorized
Categorized(r) ==
    [lx |-> r.lx,
     tok |-> categorizeKeyword(r.tok.value, r.tok.line, r.tok.column)]

\* Lexer::getNextToken
getNextToken(lx) ==
    IF CharIs(lx, 0, "#") THEN readPreprocessor(lx)
    ELSE IF isdigit(lx.source[lx.position + 1]) THEN readNumber(lx)
    ELSE IF isalpha(lx.source[lx.position + 1]) \/ CharIs(lx, 0, "_")
    THEN Categorized(readIdentifier(lx))
    ELSE IF CharIs(lx, 0, "\"") THEN readString(lx)
    ELSE IF CharIs(lx, 0, "'") THEN readCharacter(lx)
    ELSE IF CharIs(lx, 0, "/") /\ CharIs(lx, 1, "/")
    THEN readSingleLineComment(lx)
    ELSE IF CharIs(lx, 0, "/") /\ CharIs(lx, 1, "*")
    THEN readMultiLineComment(lx)
    ELSE IF CharIn(lx, {"<", ">"}) THEN readOperator(lx)
    ELSE IF CharIn(lx, single_operators) THEN readOperator(lx)
    ELSE readPunctuation(lx)

\* tokenize: the token is kept unless it is UNKNOWN
KeepToken(r) ==
    IF r.tok.type # "UNKNOWN" THEN [r.lx EXCEPT !.tokens = Append(@, r.tok)]
    ELSE r.lx

RECURSIVE TokenizeLoop(_)
RECURSIVE TokenizeNext(_)
\* tokenize: the loop, after skipWhitespace
TokenizeNext(lx) ==
    IF lx.position >= Len(lx.source) THEN lx
    ELSE TokenizeLoop(KeepToken(getNextToken(lx)))

\* tokenize: the loop
TokenizeLoop(lx) ==
    IF lx.position < Len(lx.source) THEN TokenizeNext(skipWhitespace(lx))
    ELSE lx

\* tokenize: the END_OF_FILE token is appended
EndOfFile(lx) ==
    [lx EXCEPT !.tokens = Append(@, Token("END_OF_FILE", "", lx.line,
                                          lx.column))]

\* Lexer::tokenize
tokenize(lx) ==
    EndOfFile(TokenizeLoop([lx EXCEPT !.tokens = <<>>, !.error_flag = FALSE,
                                      !.position = 0, !.line = 1,
                                      !.column = 1]))

----------------------------------------------------------------------------
(* The parser (src/goc/parser.cpp).  PS is the Parser object as a record   *)
(* of its fields; idx counts from 0 as in the code.  A parse* operator     *)
(* maps the parser before the call to the parser after it and the node     *)
(* returned.  error() throws: the parser is marked thrown, with the        *)
(* message, and from then on no method reads a token or moves idx, so      *)
(* the state a thrown parser carries is the state at the throw.  Class,    *)
(* struct, namespace, template, using and include declarations are not     *)
(* modelled.                                                               *)

\* What a parse* method returns with
Parsed(p, node) == [p |-> p, node |-> node]

\* The node with the line and column of the token
At(node, tok) == node @@ [line |-> tok.line, column |-> tok.column]

RECURSIVE SkipComments(_)
\* The loop over COMMENT tokens of the constructor and of advance()
SkipComments(p) ==
    IF p.idx < Len(p.tokens) /\ p.tokens[p.idx + 1].type = "COMMENT"
    THEN SkipComments([p EXCEPT !.idx = @ + 1])
    ELSE p

\* Parser::Parser
Parser(toks) ==
    SkipComments([tokens |-> toks, idx |-> 0, thrown |-> FALSE,
                  message |-> ""])

\* Parser::peek
ParserPeek(p) == p.tokens[p.idx + 1]

\* Parser::isAtEnd; nothing is read after a throw
isAtEnd(p) == p.thrown \/ ParserPeek(p).type = "END_OF_FILE"

\* Parser::advance
ParserAdvance(p) ==
    IF isAtEnd(p) THEN p ELSE SkipComments([p EXCEPT !.idx = @ + 1])

\* Parser::check
check(p, t) == ~isAtEnd(p) /\ ParserPeek(p).type = t

\* check(t) && peek().value is one of the values
checkValue(p, t, values) == check(p, t) /\ ParserPeek(p).value \in values

\* Parser::error
ParserError(p, msg) ==
    IF p.thrown THEN p ELSE [p EXCEPT !.thrown = TRUE, !.message = msg]

\* Parser::consume
consume(p, t, msg) ==
    IF check(p, t) THEN ParserAdvance(p) ELSE ParserError(p, msg)

\* if (!check(t)) error(peek(), msg);
Require(p, t, msg) == IF check(p, t) THEN p ELSE ParserError(p, msg)

\* A node is parsed, then the token is consumed
Expect(r, t, msg) ==
    IF r.p.thrown THEN Parsed(r.p, NullNode)
    ELSE Parsed(consume(r.p, t, msg), r.node)

\* A declaration the model does not parse
NotModelled(p, what) ==
    Parsed(ParserError(p, "not modelled: " \o what), NullNode)

\* dynamic_cast gave a null pointer and it is dereferenced
NullDereference(p) ==
    Parsed(ParserError(p, "null pointer dereference"), NullNode)

\* The type tokens read so far
Typed(p, type) == [p |-> p, type |-> type]

RECURSIVE TakeAll(_, _, _)
\* parseType: a loop over storage classes or type qualifiers
TakeAll(p, type, t) ==
    IF check(p, t)
    THEN TakeAll(ParserAdvance(p), Append(type, ParserPeek(p).value), t)
    ELSE Typed(p, type)

\* The text read so far
Texted(p, text) == [p |-> p, text |-> text]

RECURSIVE TemplateText(_, _, _)
\* parseType: the loop up to the > that closes the template arguments
TemplateText(p, templ, depth) ==
    IF isAtEnd(p) \/ depth = 0 THEN Texted(p, templ)
    ELSE IF check(p, "LESS")
    THEN TemplateText(ParserAdvance(p), templ \o "<", depth + 1)
    ELSE IF check(p, "GREATER")
    THEN TemplateText(ParserAdvance(p), templ \o ">", depth - 1)
    ELSE TemplateText(ParserAdvance(p), templ \o ParserPeek(p).value, depth)

RECURSIVE QualifiedType(_, _, _)
\* parseType: the template arguments are part of the name
AfterTemplate(tt, type, fullname) ==
    QualifiedType(tt.p, type, fullname \o tt.text)

\* parseType: the loop over ::qualifiers and <template arguments>
QualifiedType(p, type, fullname) ==
    IF check(p, "SCOPE_RESOLUTION")
    THEN (IF check(ParserAdvance(p), "IDENTIFIER")
          THEN QualifiedType(ParserAdvance(ParserAdvance(p)), type,
                             fullname \o "::"
                                 \o ParserPeek(ParserAdvance(p)).value)
          ELSE Typed(ParserAdvance(p), Append(type, fullname)))
    ELSE IF check(p, "LESS")
    THEN AfterTemplate(TemplateText(ParserAdvance(p), "<", 1), type,
                       fullname)
    ELSE Typed(p, Append(type, fullname))

\* parseType: a leading typename takes the next identifier
NamedType(p, type, fullname) ==
    IF fullname \in {"typename", "class"} /\ check(p, "IDENTIFIER")
    THEN QualifiedType(ParserAdvance(p), type,
                       fullname \o " " \o ParserPeek(p).value)
    ELSE QualifiedType(p, type, fullname)

\* parseType: the base type
BaseType(pt) ==
    IF check(pt.p, "TYPE_SPECIFIER")
    THEN Typed(ParserAdvance(pt.p), Append(pt.type, ParserPeek(pt.p).value))
    ELSE IF check(pt.p, "IDENTIFIER")
              \/ checkValue(pt.p, "KEYWORD", {"typename", "class"})
    THEN NamedType(ParserAdvance(pt.p), pt.type, ParserPeek(pt.p).value)
    ELSE pt

\* parseType: the type qualifiers
Qualifiers(pt) == TakeAll(pt.p, pt.type, "TYPE_QUALIFIER")

RECURSIVE PointerMarkers(_)
\* parseType: the loop over pointer and reference markers
PointerMarkers(pt) ==
    IF checkValue(pt.p, "OPERATOR", {"*", "&"})
    THEN PointerMarkers(Qualifiers(Typed(ParserAdvance(pt.p),
                            Append(pt.type, ParserPeek(pt.p).value))))
    ELSE pt

\* Parser::parseType
parseType(p) ==
    PointerMarkers(BaseType(Qualifiers(TakeAll(p, <<>>, "STORAGE_CLASS"))))

\* tempPos < tokens.size() && tokens[tempPos].type == t
TypeAt(toks, pos, t) == pos < Len(toks) /\ toks[pos + 1].type = t

\* The position and the type tokens of the lookahead
Looked(pos, type) == [pos |-> pos, type |-> type]

RECURSIVE LookAll(_, _, _, _)
\* parseTypeForLookahead: a loop over storage classes or type qualifiers
LookAll(toks, pos, type, t) ==
    IF TypeAt(toks, pos, t)
    THEN LookAll(toks, pos + 1, Append(type, toks[pos + 1].value), t)
    ELSE Looked(pos, type)

\* The position and the name read by the lookahead
Named(pos, name) == [pos |-> pos, name |-> name]

RECURSIVE LookQualified(_, _, _)
\* parseTypeForLookahead: the loop over ::qualifiers
LookQualified(toks, pos, fullname) ==
    IF TypeAt(toks, pos, "SCOPE_RESOLUTION")
    THEN (IF TypeAt(toks, pos + 1, "IDENTIFIER")
          THEN LookQualified(toks, pos + 2,
                             fullname \o "::" \o toks[pos + 2].value)
          ELSE Named(pos + 1, fullname))
    ELSE Named(pos, fullname)

RECURSIVE LookTemplateText(_, _, _, _)
\* parseTypeForLookahead: the loop up to the closing >
LookTemplateText(toks, pos, templ, depth) ==
    IF pos >= Len(toks) \/ depth = 0 THEN Named(pos, templ)
    ELSE IF TypeAt(toks, pos, "LESS")
    THEN LookTemplateText(toks, pos + 1, templ \o "<", depth + 1)
    ELSE IF TypeAt(toks, pos, "GREATER")
    THEN LookTemplateText(toks, pos + 1, templ \o ">", depth - 1)
    ELSE LookTemplateText(toks, pos + 1, templ \o toks[pos + 1].value, depth)

\* parseTypeForLookahead: the name with its template arguments
WithTemplate(q, tt) == Named(tt.pos, q.name \o tt.name)

\* parseTypeForLookahead: the template arguments
LookTemplate(toks, q) ==
    IF TypeAt(toks, q.pos, "LESS")
    THEN WithTemplate(q, LookTemplateText(toks, q.pos + 1, "<", 1))
    ELSE q

RECURSIVE LookBase(_, _)
\* parseTypeForLookahead: after a base name, long, short, signed and
\* unsigned continue the loop
LookBaseEnd(toks, q, type) ==
    IF TypeAt(toks, q.pos, "TYPE_SPECIFIER")
          /\ toks[q.pos + 1].value \in {"long", "short", "signed", "unsigned"}
    THEN LookBase(toks, Looked(q.pos, Append(type, q.name)))
    ELSE Looked(q.pos, Append(type, q.name))

\* parseTypeForLookahead: the loop over base type names
LookBase(toks, lk) ==
    IF \/ TypeAt(toks, lk.pos, "TYPE_SPECIFIER")
       \/ TypeAt(toks, lk.pos, "IDENTIFIER")
       \/ (TypeAt(toks, lk.pos, "KEYWORD")
              /\ toks[lk.pos + 1].value \in {"typename", "class"})
    THEN LookBaseEnd(toks,
                     LookTemplate(toks,
                         LookQualified(toks, lk.pos + 1,
                                       toks[lk.pos + 1].value)),
                     lk.type)
    ELSE lk

RECURSIVE LookPointers(_, _)
\* parseTypeForLookahead: the loop over pointer and reference markers
LookPointers(toks, lk) ==
    IF TypeAt(toks, lk.pos, "OPERATOR")
          /\ toks[lk.pos + 1].value \in {"*", "&"}
    THEN LookPointers(toks, Looked(lk.pos + 1,
                                   Append(lk.type, toks[lk.pos + 1].value)))
    ELSE lk

\* parseTypeForLookahead: the type qualifiers
LookQualifiers(toks, lk) == LookAll(toks, lk.pos, lk.type, "TYPE_QUALIFIER")

\* Parser::parseTypeForLookahead
parseTypeForLookahead(toks, pos) ==
    LookPointers(toks,
        LookBase(toks,
            LookQualifiers(toks, LookAll(toks, pos, <<>>, "STORAGE_CLASS"))))

RECURSIVE parseExpression(_)
RECURSIVE parseAssignment(_)
RECURSIVE parseLevel(_, _)
RECURSIVE parseUnary(_)
RECURSIVE Postfix(_, _)
RECURSIVE parseStatement(_)
RECURSIVE parseDeclarationOrStatement(_)
RECURSIVE parseVarDeclaration(_)
RECURSIVE parseBlock(_)

RECURSIVE SkipTo(_, _)
\* while (!check(t) && !isAtEnd()) advance();
SkipTo(p, t) ==
    IF ~check(p, t) /\ ~isAtEnd(p) THEN SkipTo(ParserAdvance(p), t) ELSE p

RECURSIVE SkipBraces(_, _)
\* The loop up to the } that closes the body of a lambda
SkipBraces(p, depth) ==
    IF isAtEnd(p) \/ depth = 0 THEN p
    ELSE IF check(p, "LEFT_BRACE") THEN SkipBraces(ParserAdvance(p), depth + 1)
    ELSE IF check(p, "RIGHT_BRACE")
    THEN SkipBraces(ParserAdvance(p), depth - 1)
    ELSE SkipBraces(ParserAdvance(p), depth)

\* parseCallAndPrimary: the body of a lambda
LambdaBody(p) ==
    IF check(p, "LEFT_BRACE") THEN SkipBraces(ParserAdvance(p), 1) ELSE p

\* parseCallAndPrimary: a lambda, which starts with [
Lambda(p) ==
    Parsed(LambdaBody(SkipTo(ParserAdvance(p), "LEFT_BRACE")),
           At(Literal("<lambda>", "LEFT_BRACE"), ParserPeek(p)))

\* parseCallAndPrimary: the member named after -> or .
Member(p, left, op) ==
    Postfix(ParserAdvance(p),
            At(MemberAccess(left, ParserPeek(p).value, op.type = "ARROW"),
               op))

\* parseCallAndPrimary: the subscript after the index
Subscript(r, left, bracket) ==
    IF r.p.thrown THEN Parsed(r.p, NullNode)
    ELSE Postfix(r.p, At(ArraySubscript(left, r.node), bracket))

\* The arguments read so far
Arguments(p, args) == [p |-> p, args |-> args]

RECURSIVE CallArguments(_, _)
\* parseCallAndPrimary: do { ... } while (match({COMMA}))
MoreCallArguments(r, args) ==
    IF r.p.thrown THEN Arguments(r.p, args)
    ELSE IF check(r.p, "COMMA")
         THEN CallArguments(ParserAdvance(r.p), Append(args, r.node))
         ELSE Arguments(r.p, Append(args, r.node))

CallArguments(p, args) == MoreCallArguments(parseExpression(p), args)

\* parseCallAndPrimary: the call after its arguments
CallOf(a, left, open) ==
    IF a.p.thrown THEN Parsed(a.p, NullNode)
    ELSE Postfix(consume(a.p, "RIGHT_PAREN",
                         "Expected ')' after function call arguments"),
                 At(CallExpr(left, a.args), open))

\* parseCallAndPrimary: the loop over postfix operators
Postfix(p, left) ==
    CASE check(p, "ARROW") ->
            Member(Require(ParserAdvance(p), "IDENTIFIER",
                           "Expected member name after '->'"),
                   left, ParserPeek(p))
      [] check(p, "DOT") ->
            Member(Require(ParserAdvance(p), "IDENTIFIER",
                           "Expected member name after '.'"),
                   left, ParserPeek(p))
      [] check(p, "LEFT_BRACKET") ->
            Subscript(Expect(parseExpression(ParserAdvance(p)),
                             "RIGHT_BRACKET",
                             "Expected ']' after array index"),
                      left, ParserPeek(p))
      [] check(p, "LEFT_PAREN") ->
            CallOf(IF check(ParserAdvance(p), "RIGHT_PAREN")
                   THEN Arguments(ParserAdvance(p), <<>>)
                   ELSE CallArguments(ParserAdvance(p), <<>>),
                   left, ParserPeek(p))
      [] checkValue(p, "OPERATOR", {"++", "--"}) ->
            Postfix(ParserAdvance(p),
                    At(UnaryOp(ParserPeek(p).value \o "_post", left),
                       ParserPeek(p)))
      [] check(p, "SCOPE_RESOLUTION") ->
            IF ~check(ParserAdvance(p), "IDENTIFIER")
            THEN Postfix(ParserAdvance(p), left)
            ELSE IF left.kind # "IDENTIFIER" THEN NullDereference(p)
            ELSE Postfix(ParserAdvance(ParserAdvance(p)),
                         At(Identifier(left.name \o "::"
                                \o ParserPeek(ParserAdvance(p)).value),
                            ParserPeek(ParserAdvance(p))))
      [] OTHER -> Parsed(p, left)

\* Parser::parseCallAndPrimary
parseCallAndPrimary(p) ==
    IF p.thrown THEN Parsed(p, NullNode)
    ELSE CASE ParserPeek(p).type = "LEFT_BRACKET" -> Lambda(p)
           [] ParserPeek(p).type \in {"NUMBER", "STRING", "CHARACTER"} ->
                Parsed(ParserAdvance(p),
                       At(Literal(ParserPeek(p).value, ParserPeek(p).type),
                          ParserPeek(p)))
           [] ParserPeek(p).type = "IDENTIFIER" ->
                Postfix(ParserAdvance(p),
                        At(Identifier(ParserPeek(p).value), ParserPeek(p)))
           [] check(p, "LEFT_PAREN") ->
                Expect(parseExpression(ParserAdvance(p)), "RIGHT_PAREN",
                       "Expected ')' after expression")
           [] OTHER -> Parsed(ParserError(p, "Expected expression"), NullNode)

\* The unary node of the operand parsed
UnaryNode(r, name, op) ==
    IF r.p.thrown THEN Parsed(r.p, NullNode)
    ELSE Parsed(r.p, At(UnaryOp(name, r.node), op))

\* parseUnary: new T[size]
NewArray(r, type_name, op) ==
    IF r.p.thrown THEN Parsed(r.p, NullNode)
    ELSE Parsed(ParserAdvance(Require(r.p, "RIGHT_BRACKET",
                                      "Expected ']' after array size")),
                At(UnaryOp("new",
                           At(ArraySubscript(At(Identifier(type_name), op),
                                             r.node), op)), op))

\* parseUnary: the operand of new
NewOperand(p, op) ==
    IF ~check(p, "TYPE_SPECIFIER") THEN UnaryNode(parseUnary(p), "new", op)
    ELSE IF check(ParserAdvance(p), "LEFT_BRACKET")
    THEN NewArray(parseExpression(ParserAdvance(ParserAdvance(p))),
                  ParserPeek(p).value, op)
    ELSE Parsed(ParserAdvance(p),
                At(UnaryOp("new", At(Identifier(ParserPeek(p).value), op)),
                   op))

\* Parser::parseUnary
parseUnary(p) ==
    CASE checkValue(p, "KEYWORD", {"new"}) ->
            NewOperand(ParserAdvance(p), ParserPeek(p))
      [] checkValue(p, "KEYWORD", {"delete"}) ->
            UnaryNode(parseUnary(ParserAdvance(p)), "delete", ParserPeek(p))
      [] checkValue(p, "OPERATOR", {"!", "-", "+", "*", "&", "~"}) ->
            UnaryNode(parseUnary(ParserAdvance(p)), ParserPeek(p).value,
                      ParserPeek(p))
      [] OTHER -> parseCallAndPrimary(p)

\* The levels of the left-associative binary operators, loosest first:
\* parseLogicalOr, parseLogicalAnd, parseEquality, parseComparison,
\* parseShift, parseAdditive, parseMultiplicative
Levels ==
    <<"LogicalOr", "LogicalAnd", "Equality", "Comparison", "Shift",
      "Additive", "Multiplicative">>

\* The condition of the loop of the level
IsOperatorOf(p, level) ==
    CASE level = 1 -> checkValue(p, "OPERATOR", {"||"})
      [] level = 2 -> checkValue(p, "OPERATOR", {"&&"})
      [] level = 3 -> checkValue(p, "OPERATOR", {"==", "!="})
      [] level = 4 ->
            \/ check(p, "LESS") \/ check(p, "GREATER")
            \/ check(p, "LESS_EQUAL") \/ check(p, "GREATER_EQUAL")
            \/ checkValue(p, "OPERATOR", {"<", ">", "<=", ">="})
      [] level = 5 ->
            \/ check(p, "LEFT_SHIFT") \/ check(p, "RIGHT_SHIFT")
            \/ checkValue(p, "OPERATOR", {"<<", ">>"})
      [] level = 6 -> checkValue(p, "OPERATOR", {"+", "-"})
      [] level = 7 -> checkValue(p, "OPERATOR", {"*", "/", "%"})

\* The operand of a level is parsed by the next level, the last by
\* parseUnary
parseOperand(p, level) ==
    IF level = Len(Levels) THEN parseUnary(p) ELSE parseLevel(p, level + 1)

\* The binary node of the operator token and its operands
BinaryNode(r, left, op) ==
    IF r.p.thrown THEN Parsed(r.p, NullNode)
    ELSE Parsed(r.p, At(BinaryOp(op.value, left, r.node), op))

RECURSIVE LevelLoop(_, _)
\* The loop of a level
LevelLoop(l, level) ==
    IF l.p.thrown THEN l
    ELSE IF IsOperatorOf(l.p, level)
    THEN LevelLoop(BinaryNode(parseOperand(ParserAdvance(l.p), level),
                              l.node, ParserPeek(l.p)),
                   level)
    ELSE l

RECURSIVE Climb(_, _, _)
\* Every level reads its first operand through the level below it, so the
\* first operand is the one parseUnary reads, and the loops then run from
\* parseMultiplicative up to the level called
Climb(l, k, level) ==
    IF l.p.thrown \/ k < level THEN l
    ELSE Climb(LevelLoop(l, k), k - 1, level)

\* Parser::parseLogicalOr ... Parser::parseMultiplicative
parseLevel(p, level) == Climb(parseUnary(p), Len(Levels), level)

\* Parser::parseLogicalOr
parseLogicalOr(p) == parseLevel(p, 1)

\* parseConditional: the node, which holds the two branches
ConditionalNode(r, thenExpr, q) ==
    IF r.p.thrown THEN Parsed(r.p, NullNode)
    ELSE Parsed(r.p, At(BinaryOp("?:", thenExpr, r.node), q))

\* parseConditional: after the branch taken
ConditionalElse(t, q) ==
    IF t.p.thrown THEN Parsed(t.p, NullNode)
    ELSE ConditionalNode(parseExpression(t.p), t.node, q)

\* parseConditional: after the condition
ConditionalAfter(c) ==
    IF c.p.thrown THEN c
    ELSE IF checkValue(c.p, "OPERATOR", {"?"})
    THEN ConditionalElse(Expect(parseExpression(ParserAdvance(c.p)), "COLON",
                                "Expected ':' in conditional expression"),
                         ParserPeek(c.p))
    ELSE c

\* Parser::parseConditional
parseConditional(p) == ConditionalAfter(parseLogicalOr(p))

\* parseAssignment: after the left side
AssignmentAfter(l) ==
    IF l.p.thrown THEN l
    ELSE IF checkValue(l.p, "OPERATOR", {"="})
    THEN BinaryNode(parseAssignment(ParserAdvance(l.p)), l.node,
                    ParserPeek(l.p))
    ELSE l

\* Parser::parseAssignment
parseAssignment(p) == AssignmentAfter(parseConditional(p))

\* Parser::parseExpression
parseExpression(p) == parseAssignment(p)

\* parseExpressionStatement: the node is placed at the token the parser
\* stands at after the semicolon
ExpressionStatementAt(p, expr) == Parsed(p, At(ExprStmt(expr), ParserPeek(p)))

\* parseExpressionStatement: after the expression
ExpressionStatement(r) ==
    IF r.p.thrown THEN Parsed(r.p, NullNode)
    ELSE ExpressionStatementAt(consume(r.p, "SEMICOLON",
                                       "Expected ';' after expression"),
                               r.node)

\* Parser::parseExpressionStatement
parseExpressionStatement(p) == ExpressionStatement(parseExpression(p))

\* return and throw: the expression, if there is one
OptionalExpression(p) ==
    IF ~check(p, "SEMICOLON") THEN parseExpression(p)
    ELSE Parsed(p, NullNode)

\* parseReturn: the node
ReturnNode(r, tk) ==
    IF r.p.thrown THEN Parsed(r.p, NullNode)
    ELSE Parsed(r.p, At(ReturnStmt(r.node), tk))

\* Parser::parseReturn
parseReturn(p) ==
    ReturnNode(Expect(OptionalExpression(ParserAdvance(p)), "SEMICOLON",
                      "Expected ';' after return"),
               ParserPeek(p))

\* parseThrow: the node
ThrowNode(r, tk) ==
    IF r.p.thrown THEN Parsed(r.p, NullNode)
    ELSE Parsed(r.p, At(ExprStmt(r.node), tk))

\* Parser::parseThrow
parseThrow(p) ==
    ThrowNode(Expect(OptionalExpression(ParserAdvance(p)), "SEMICOLON",
                     "Expected ';' after throw"),
              ParserPeek(p))

\* parseIf: the node
IfNode(e, cond, thenBranch, tk) ==
    IF e.p.thrown THEN Parsed(e.p, NullNode)
    ELSE Parsed(e.p, At(IfStmt(cond, thenBranch, e.node), tk))

\* parseIf: after the then branch
IfAfterThen(t, cond, tk) ==
    IF t.p.thrown THEN Parsed(t.p, NullNode)
    ELSE IF checkValue(t.p, "KEYWORD", {"else"})
         THEN IfNode(parseStatement(ParserAdvance(t.p)), cond, t.node, tk)
         ELSE IfNode(Parsed(t.p, NullNode), cond, t.node, tk)

\* parseIf: after the condition
IfAfterCond(c, tk) ==
    IF c.p.thrown THEN Parsed(c.p, NullNode)
    ELSE IfAfterThen(parseStatement(c.p), c.node, tk)

\* Parser::parseIf
parseIf(p) ==
    IfAfterCond(Expect(parseExpression(consume(ParserAdvance(p), "LEFT_PAREN",
                                               "Expected '(' after if")),
                       "RIGHT_PAREN", "Expected ')' after if condition"),
                ParserPeek(p))

\* parseWhile: the node
WhileNode(b, cond, tk) ==
    IF b.p.thrown THEN Parsed(b.p, NullNode)
    ELSE Parsed(b.p, At(WhileStmt(cond, b.node), tk))

\* parseWhile: after the condition
WhileAfterCond(c, tk) ==
    IF c.p.thrown THEN Parsed(c.p, NullNode)
    ELSE WhileNode(parseStatement(c.p), c.node, tk)

\* Parser::parseWhile
parseWhile(p) ==
    WhileAfterCond(Expect(parseExpression(consume(ParserAdvance(p),
                                                  "LEFT_PAREN",
                                                  "Expected '(' after while")),
                          "RIGHT_PAREN",
                          "Expected ')' after while condition"),
                   ParserPeek(p))

\* parseFor: the node
ForNode(b, init, cond, post, tk) ==
    IF b.p.thrown THEN Parsed(b.p, NullNode)
    ELSE Parsed(b.p, At(ForStmt(init, cond, post, b.node), tk))

\* parseFor: after the clauses of a traditional for
ForAfterPost(post, init, cond, tk) ==
    IF post.p.thrown THEN Parsed(post.p, NullNode)
    ELSE ForNode(parseStatement(post.p), init, cond, post.node, tk)

\* parseFor: after the condition
ForAfterCond(c, init, tk) ==
    IF c.p.thrown THEN Parsed(c.p, NullNode)
    ELSE ForAfterPost(Expect(IF ~check(c.p, "RIGHT_PAREN")
                             THEN parseExpression(c.p)
                             ELSE Parsed(c.p, NullNode),
                             "RIGHT_PAREN", "Expected ')' after for clauses"),
                      init, c.node, tk)

\* parseFor: a range-based for, after the range expression
RangeFor(range, init, tk) ==
    IF range.p.thrown THEN Parsed(range.p, NullNode)
    ELSE ForNode(parseStatement(range.p), init, NullNode, range.node, tk)

\* parseFor: after the init clause
ForAfterInit(i, tk) ==
    IF i.p.thrown THEN Parsed(i.p, NullNode)
    ELSE IF check(i.p, "COLON")
         THEN RangeFor(Expect(parseExpression(ParserAdvance(i.p)), "RIGHT_PAREN",
                              "Expected ')' after for range"),
                       i.node, tk)
         ELSE ForAfterCond(Expect(OptionalExpression(i.p), "SEMICOLON",
                                  "Expected ';' after for condition"),
                           i.node, tk)

\* parseFor: the init clause
ForInit(p) ==
    IF check(p, "SEMICOLON")
    THEN Parsed(consume(p, "SEMICOLON",
                        "Expected ';' after for init (empty)"), NullNode)
    ELSE IF \/ check(p, "TYPE_SPECIFIER") \/ check(p, "TYPE_QUALIFIER")
            \/ check(p, "STORAGE_CLASS")
    THEN parseVarDeclaration(p)
    ELSE Expect(parseExpression(p), "SEMICOLON",
                "Expected ';' after for init")

\* Parser::parseFor
parseFor(p) ==
    ForAfterInit(ForInit(consume(ParserAdvance(p), "LEFT_PAREN",
                                 "Expected '(' after for")),
                 ParserPeek(p))

\* The statements read so far
Statements(p, statements) == [p |-> p, statements |-> statements]

RECURSIVE BlockLoop(_, _)
\* parseBlock: a null statement is not kept
BlockNext(r, statements) ==
    IF r.p.thrown THEN Statements(r.p, statements)
    ELSE BlockLoop(r.p, IF r.node.kind = "NULL" THEN statements
                        ELSE Append(statements, r.node))

\* parseBlock: the loop
BlockLoop(p, statements) ==
    IF ~check(p, "RIGHT_BRACE") /\ ~isAtEnd(p)
    THEN BlockNext(parseDeclarationOrStatement(p), statements)
    ELSE Statements(p, statements)

\* parseBlock: the node
BlockNode(b, open) ==
    IF b.p.thrown THEN Parsed(b.p, NullNode)
    ELSE Parsed(consume(b.p, "RIGHT_BRACE", "Expected '}' after block"),
                At(BlockStmt(b.statements), open))

\* Parser::parseBlock
parseBlock(p) ==
    BlockNode(BlockLoop(consume(p, "LEFT_BRACE",
                                "Expected '{' to start block"), <<>>),
              ParserPeek(p))

\* parseStatement: match({LEFT_BRACE}) is undone by idx--
Unmatched(p) == [ParserAdvance(p) EXCEPT !.idx = @ - 1]

\* Parser::parseStatement
parseStatement(p) ==
    IF p.thrown THEN Parsed(p, NullNode)
    ELSE CASE ParserPeek(p).type = "PREPROCESSOR" ->
                Parsed(ParserAdvance(p), NullNode)
           [] checkValue(p, "KEYWORD", {"using"}) ->
                parseDeclarationOrStatement(p)
           [] check(p, "LEFT_BRACE") -> parseBlock(Unmatched(p))
           [] checkValue(p, "KEYWORD", {"if"}) -> parseIf(p)
           [] checkValue(p, "KEYWORD", {"while"}) -> parseWhile(p)
           [] checkValue(p, "KEYWORD", {"for"}) -> parseFor(p)
           [] checkValue(p, "KEYWORD", {"return"}) -> parseReturn(p)
           [] checkValue(p, "KEYWORD", {"throw"}) -> parseThrow(p)
           [] OTHER -> parseExpressionStatement(p)

\* The initializer of a declarator
Initial(r, isArray) == [p |-> r.p, node |-> r.node, isArray |-> isArray]

RECURSIVE BraceContents(_, _)
\* parseVarDeclaration: the loop up to the } of an initializer list
BraceContents(p, contents) ==
    IF ~check(p, "RIGHT_BRACE") /\ ~isAtEnd(p)
    THEN BraceContents(ParserAdvance(p), contents \o ParserPeek(p).value)
    ELSE Texted(p, contents)

\* parseVarDeclaration: the literal of an initializer list
BraceList(c, ob) ==
    Parsed(consume(c.p, "RIGHT_BRACE", "Expected '}' after initializer list"),
           At(Literal(c.text, "LEFT_BRACE"), ob))

\* parseVarDeclaration: what follows the =
InitializerValue(p) ==
    IF check(p, "LEFT_BRACE")
    THEN BraceList(BraceContents(ParserAdvance(p), ""), ParserPeek(p))
    ELSE parseExpression(p)

\* parseVarDeclaration: after the ] of an array declarator
ArrayInitializer(p) ==
    IF checkValue(p, "OPERATOR", {"="})
    THEN Initial(InitializerValue(ParserAdvance(p)), TRUE)
    ELSE Initial(Parsed(p, NullNode), TRUE)

RECURSIVE ConstructorArguments(_, _)
\* parseVarDeclaration: if (!match({COMMA})) break;
MoreConstructorArguments(r, args) ==
    IF r.p.thrown THEN Arguments(r.p, args)
    ELSE IF check(r.p, "COMMA")
         THEN ConstructorArguments(ParserAdvance(r.p), Append(args, r.node))
         ELSE Arguments(r.p, Append(args, r.node))

\* parseVarDeclaration: the loop over constructor arguments
ConstructorArguments(p, args) ==
    IF ~check(p, "RIGHT_PAREN") /\ ~isAtEnd(p)
    THEN MoreConstructorArguments(parseExpression(p), args)
    ELSE Arguments(p, args)

\* parseVarDeclaration: the call of the constructor initializer
ConstructorCall(a, type, start) ==
    IF a.p.thrown THEN Parsed(a.p, NullNode)
    ELSE Parsed(consume(a.p, "RIGHT_PAREN",
                        "Expected ')' after constructor arguments"),
                At(CallExpr(At(Identifier(IF type = <<>> THEN "" ELSE type[1]),
                               start),
                            a.args), start))

\* parseVarDeclaration: the initializer of the declarator
Initializer(p, type, start) ==
    IF check(p, "LEFT_BRACKET")
    THEN ArrayInitializer(consume(parseExpression(ParserAdvance(p)).p,
                                  "RIGHT_BRACKET",
                                  "Expected ']' in array declarator"))
    ELSE IF checkValue(p, "OPERATOR", {"="})
    THEN Initial(InitializerValue(ParserAdvance(p)), FALSE)
    ELSE IF check(p, "LEFT_PAREN")
    THEN Initial(ConstructorCall(ConstructorArguments(ParserAdvance(p), <<>>),
                                 type, start), FALSE)
    ELSE Initial(Parsed(p, NullNode), FALSE)

\* parseVarDeclaration: the VarDecl node of a declarator
Declarator(type, nameTok, i, start) ==
    At([VarDecl(type, nameTok.value, i.node) EXCEPT
            !.isPointer = \E k \in DOMAIN type : type[k] = "*",
            !.isReference = \E k \in DOMAIN type : type[k] = "&",
            !.isArray = i.isArray],
       start)

\* The declarators read so far
Declared(p, decls) == [p |-> p, decls |-> decls]

RECURSIVE Declarators(_, _, _, _)
\* parseVarDeclaration: if (!match({COMMA})) break;
MoreDeclarators(i, nameTok, type, start, decls) ==
    IF i.p.thrown THEN Declared(i.p, decls)
    ELSE IF check(i.p, "COMMA")
         THEN Declarators(ParserAdvance(i.p), type, start,
                          Append(decls, Declarator(type, nameTok, i, start)))
         ELSE Declared(i.p, Append(decls, Declarator(type, nameTok, i, start)))

\* parseVarDeclaration: the loop over declarators
Declarators(p, type, start, decls) ==
    IF p.thrown THEN Declared(p, decls)
    ELSE MoreDeclarators(Initializer(ParserAdvance(p), type, start),
                         ParserPeek(p), type, start, decls)

\* parseVarDeclaration: the semicolon is consumed if it is there; one
\* declarator is returned as it is, several in a block
EndDeclaration(d, start) ==
    IF d.p.thrown THEN Parsed(d.p, NullNode)
    ELSE Parsed(IF check(d.p, "SEMICOLON")
                THEN consume(d.p, "SEMICOLON",
                             "Expected ';' after variable declaration")
                ELSE d.p,
                IF Len(d.decls) = 1 THEN d.decls[1]
                ELSE At(BlockStmt(d.decls), start))

\* parseVarDeclaration: after the type
DeclarationAfterType(pt, start) ==
    IF pt.p.thrown THEN Parsed(pt.p, NullNode)
    ELSE EndDeclaration(Declarators(Require(pt.p, "IDENTIFIER",
                                            "Expected identifier after type"),
                                    pt.type, start, <<>>),
                        start)

\* Parser::parseVarDeclaration
parseVarDeclaration(p) == DeclarationAfterType(parseType(p), ParserPeek(p))

\* The parameters read so far
Parameters(p, params) == [p |-> p, params |-> params]

RECURSIVE ParameterLoop(_, _)
\* parseFunctionParams: if (!match({COMMA})) break;
MoreParameters(p, params) ==
    IF check(p, "COMMA") THEN ParameterLoop(ParserAdvance(p), params)
    ELSE Parameters(p, params)

\* parseFunctionParams: the name of the parameter, if there is one
Parameter(pt, params) ==
    IF check(pt.p, "IDENTIFIER")
    THEN MoreParameters(ParserAdvance(pt.p),
                        Append(params, <<pt.type, ParserPeek(pt.p).value>>))
    ELSE MoreParameters(pt.p, Append(params, <<pt.type, "">>))

\* parseFunctionParams: the type of the parameter
ParameterType(pt, params) ==
    Parameter(IF pt.type = <<>>
              THEN Typed(ParserError(pt.p, "Expected type in parameter list"),
                         pt.type)
              ELSE pt,
              params)

\* parseFunctionParams: the loop
ParameterLoop(p, params) ==
    IF ~check(p, "RIGHT_PAREN") /\ ~isAtEnd(p)
    THEN ParameterType(parseType(p), params)
    ELSE Parameters(p, params)

\* parseFunctionParams: the closing parenthesis
ParametersEnd(pp) ==
    Parameters(consume(pp.p, "RIGHT_PAREN", "Expected ')' after parameters"),
               pp.params)

\* Parser::parseFunctionParams
parseFunctionParams(p) ==
    ParametersEnd(ParameterLoop(consume(p, "LEFT_PAREN",
                                        "Expected '(' after function name"),
                                <<>>))

\* parseFunctionDeclaration: the node
FunctionNode(b, returnType, funcName, params, isConst, start) ==
    IF b.p.thrown THEN Parsed(b.p, NullNode)
    ELSE Parsed(b.p,
                At(FunctionDecl(funcName, params, b.node)
                       @@ [returnTypeTokens |-> returnType, isConst |-> isConst],
                   start))

\* parseFunctionDeclaration: the body, or the semicolon of a prototype
FunctionBody(p) ==
    IF check(p, "LEFT_BRACE") THEN parseBlock(p)
    ELSE Parsed(consume(p, "SEMICOLON", "Expected ';' or function body"),
                NullNode)

\* parseFunctionDeclaration: after the parameters
FunctionAfterParams(pp, returnType, funcName, start) ==
    IF pp.p.thrown THEN Parsed(pp.p, NullNode)
    ELSE IF checkValue(pp.p, "TYPE_QUALIFIER", {"const"})
         THEN FunctionNode(FunctionBody(ParserAdvance(pp.p)), returnType, funcName,
                           pp.params, TRUE, start)
         ELSE FunctionNode(FunctionBody(pp.p), returnType, funcName, pp.params,
                           FALSE, start)

\* parseFunctionDeclaration: after the name
FunctionAfterName(p, returnType, funcName, start) ==
    FunctionAfterParams(parseFunctionParams(p), returnType, funcName, start)

\* parseFunctionDeclaration: after the return type of a function that is
\* no constructor and no destructor
FunctionAfterType(pt, start) ==
    IF pt.p.thrown THEN Parsed(pt.p, NullNode)
    ELSE IF check(pt.p, "LEFT_PAREN") /\ pt.type # <<>>
         THEN FunctionAfterName(pt.p, SubSeq(pt.type, 1, Len(pt.type) - 1),
                                pt.type[Len(pt.type)], start)
         ELSE FunctionAfterName(ParserAdvance(Require(pt.p, "IDENTIFIER",
                                                      "Expected function name")),
                                pt.type, ParserPeek(pt.p).value, start)

\* Parser::parseFunctionDeclaration, outside a class
parseFunctionDeclaration(p) == FunctionAfterType(parseType(p), ParserPeek(p))

\* parseDeclarationOrStatement: a function declaration if the lookahead
\* stands at an identifier followed by (
DeclarationAfter(p, lk) ==
    IF TypeAt(p.tokens, lk.pos, "IDENTIFIER")
          /\ TypeAt(p.tokens, lk.pos + 1, "LEFT_PAREN")
    THEN parseFunctionDeclaration(p)
    ELSE parseVarDeclaration(p)

\* parseDeclarationOrStatement: a declaration if the lookahead read a type
\* and stands at an identifier
UserTypeAfter(p, lk) ==
    IF lk.type # <<>> /\ TypeAt(p.tokens, lk.pos, "IDENTIFIER")
    THEN parseVarDeclaration(p)
    ELSE parseStatement(p)

\* parseDeclarationOrStatement: the keywords that start a statement
StatementKeywords ==
    {"return", "if", "while", "for", "break", "continue", "throw", "delete",
     "new"}

\* parseDeclarationOrStatement: the parser stands at a statement keyword
StartsStatement(p) ==
    ParserPeek(p).type = "KEYWORD" /\ ParserPeek(p).value \in StatementKeywords

\* parseDeclarationOrStatement: the parser stands at a keyword or type
\* token that the statement keywords have not taken
StartsDeclaration(p) ==
    /\ ParserPeek(p).type \in
           {"KEYWORD", "TYPE_SPECIFIER", "STORAGE_CLASS", "TYPE_QUALIFIER"}
    /\ ~StartsStatement(p)

\* parseDeclarationOrStatement: the keywords of the declarations that are
\* not modelled
NotModelledKeywords == {"class", "struct", "namespace", "template", "using"}

\* Parser::parseDeclarationOrStatement
parseDeclarationOrStatement(p) ==
    IF p.thrown THEN Parsed(p, NullNode)
    ELSE CASE ParserPeek(p).type = "PREPROCESSOR" ->
                NotModelled(p, "parseIncludeDirective")
           [] ParserPeek(p).type = "ACCESS_SPECIFIER" ->
                NotModelled(p, "parseAccessSpecifier")
           [] StartsStatement(p) -> parseStatement(p)
           [] StartsDeclaration(p)
                 /\ ParserPeek(p).value \in NotModelledKeywords ->
                NotModelled(p, ParserPeek(p).value)
           [] StartsDeclaration(p)
                 /\ ParserPeek(p).value \notin NotModelledKeywords ->
                DeclarationAfter(p, parseTypeForLookahead(p.tokens, p.idx))
           [] ParserPeek(p).type = "IDENTIFIER" ->
                UserTypeAfter(p, parseTypeForLookahead(p.tokens, p.idx))
           [] OTHER -> parseStatement(p)

\* The top-level nodes read so far
TopNodes(p, top) == [p |-> p, top |-> top]

RECURSIVE ProgramLoop(_, _)
\* parseProgram: a null node is not kept
ProgramNext(r, top) ==
    IF r.p.thrown THEN TopNodes(r.p, top)
    ELSE ProgramLoop(r.p, IF r.node.kind = "NULL" THEN top
                          ELSE Append(top, r.node))

\* parseProgram: the loop
ProgramLoop(p, top) ==
    IF isAtEnd(p) THEN TopNodes(p, top)
    ELSE IF check(p, "COMMENT") THEN ProgramLoop(ParserAdvance(p), top)
    ELSE ProgramNext(parseDeclarationOrStatement(p), top)

\* parseProgram: the Program returned, none if error() has thrown
ProgramOf(t) ==
    Parsed(t.p, IF t.p.thrown THEN NullNode ELSE Program(t.top))

\* Parser::parseProgram
parseProgram(p) == ProgramOf(ProgramLoop(p, <<>>))

\* No Parser has been constructed
NoParser == [tokens |-> <<>>, idx |-> 0, thrown |-> FALSE, message |-> ""]

\* No compiler runs: the bytecode is given to the VM
NoCompiler == lexer = Lexer(<<>>) /\ parser = NoParser /\ parsed = NullNode

----------------------------------------------------------------------------
(* The state machine: a VM is constructed, bytecode is loaded into it, and *)
(* then its public methods are called.                                     *)

\* The variables hold the fields of vm, and c is the call that was made
Holds(vm, c) ==
    /\ bytecode = vm.bytecode
    /\ instruction_pointer = vm.instruction_pointer
    /\ halted = vm.halted
    /\ error_flag = vm.error_flag
    /\ error_message = vm.error_message
    /\ stack = vm.stack
    /\ memory = vm.memory
    /\ call_stack = vm.call_stack
    /\ base_pointer = vm.base_pointer
    /\ heap = vm.heap
    /\ heap_blocks = vm.heap_blocks
    /\ string_table = vm.string_table
    /\ objects = vm.objects
    /\ next_object_id = vm.next_object_id
    /\ cmp_flag = vm.cmp_flag
    /\ fpu_regs = vm.fpu_regs
    /\ fpu_top = vm.fpu_top
    /\ float_memory = vm.float_memory
    /\ instruction_count = vm.instruction_count
    /\ max_stack_size = vm.max_stack_size
    /\ output = vm.output
    /\ input = vm.input
    /\ calls = c

Becomes(vm, c) ==
    /\ bytecode' = vm.bytecode
    /\ instruction_pointer' = vm.instruction_pointer
    /\ halted' = vm.halted
    /\ error_flag' = vm.error_flag
    /\ error_message' = vm.error_message
    /\ stack' = vm.stack
    /\ memory' = vm.memory
    /\ call_stack' = vm.call_stack
    /\ base_pointer' = vm.base_pointer
    /\ heap' = vm.heap
    /\ heap_blocks' = vm.heap_blocks
    /\ string_table' = vm.string_table
    /\ objects' = vm.objects
    /\ next_object_id' = vm.next_object_id
    /\ cmp_flag' = vm.cmp_flag
    /\ fpu_regs' = vm.fpu_regs
    /\ fpu_top' = vm.fpu_top
    /\ float_memory' = vm.float_memory
    /\ instruction_count' = vm.instruction_count
    /\ max_stack_size' = vm.max_stack_size
    /\ output' = vm.output
    /\ input' = vm.input
    /\ calls' = c

\* A call: the method, and for a step that dispatched an instruction its
\* opcode and its address (what the debug trace of step prints), else -1
Call(method, op, at) == [method |-> method, op |-> op, at |-> at]

\* The longest run the model follows
MaxSteps == 40

\* reset() is called while the heap has fewer than MaxBlocks blocks
MaxBlocks == 4

\* The VM after VirtualMachine::loadFromFile read the string table and the
\* code of a bytecode file into a new VM
Loaded(code, strings, stdin) ==
    reset([NewVM EXCEPT !.bytecode = code, !.string_table = strings,
                        !.input = stdin])

\* What a call of step() is recorded as: the instruction it dispatched
\* (its opcode and its address), if any
Stepped(vm) ==
    IF ~vm.alive THEN Call("killed", -1, -1)
    ELSE IF ~halted /\ ~error_flag
              /\ ~SizeGE(instruction_pointer, Len(bytecode))
    THEN Call("step", bytecode[instruction_pointer + 1], instruction_pointer)
    ELSE Call("step", -1, -1)

\* The variables become the fields of vm after step()
StepTo(vm) == Becomes(vm, Stepped(vm))

\* The run loop calls step()
Step ==
    /\ calls.method # "killed"
    /\ instruction_count < MaxSteps
    /\ \E ub \in UBOutcomes : StepTo(step(VM, ub))
    /\ UNCHANGED compiler

\* reset() is called
Reset ==
    /\ calls.method # "killed"
    /\ Len(heap_blocks) < MaxBlocks
    /\ Becomes(reset(VM), Call("reset", -1, -1))
    /\ UNCHANGED compiler

----------------------------------------------------------------------------
(* Programs.  The text of a number, and the pieces the families of         *)
(* programs below are made of.                                             *)

RECURSIVE DecimalText(_)
\* The characters of the decimal numeral of v >= 0, as the lexer reads them
DecimalText(v) ==
    IF v < 10 THEN <<Digits[v + 1]>>
    ELSE Append(DecimalText(v \div 10), Digits[(v % 10) + 1])

Number(v) == Literal(DecimalText(v), "NUMBER")

IntType == <<"int">>

\* int main() { body }
MainDecl(statements) == FunctionDecl("main", <<>>, BlockStmt(statements))

\* The VM is constructed and loads the file saveToFile wrote for cg
LoadedFrom(cg) ==
    Holds(Loaded(cg.bytecode, cg.string_table, <<>>), Call("load", -1, -1))

\* The VM is constructed and loads the file the compiler wrote for ast
CompiledInit(ast) ==
    source = ast /\ NoCompiler /\ LoadedFrom(Compile(ast))

\* The top of the integer stack
Top(s) == s[Len(s)]

\* The 32-bit operand of the instruction at address `at'
OperandAt(code, at) == BytesInt32(SubSeq(code, at + 2, at + 5))

----------------------------------------------------------------------------
(* Calls: int f(int a, int b, ...) { return <a parameter or 9>; }          *)
(*        int main() { return f(v1, v2, ...); }                            *)

MaxArgs == 3
MaxArgValue == 2
ParamNames == <<"a", "b", "c", "d", "e">>

\* body = 0: return 9; body = j > 0: return the j-th parameter
CallProgram(args, body) ==
    Program(<<
        FunctionDecl("f",
            [i \in 1..Len(args) |-> <<IntType, ParamNames[i]>>],
            BlockStmt(<<ReturnStmt(IF body = 0 THEN Number(9)
                                   ELSE Identifier(ParamNames[body]))>>)),
        MainDecl(<<ReturnStmt(CallExpr(Identifier("f"),
                     [i \in 1..Len(args) |-> Number(args[i])]))>>) >>)

CallPrograms ==
    {CallProgram(args, body) :
        <<args, body>> \in
            UNION {[1..n -> 1..MaxArgValue] \X (0..n) : n \in 0..MaxArgs}}

InitCall == \E ast \in CallPrograms : CompiledInit(ast)

SpecCall == InitCall /\ [][Step]_vars

\* The call of the program at hand: its argument values, and the value f
\* returns
CallArgs ==
    LET args == source.top[2].body.statements[1].expr.args
    IN  [i \in 1..Len(args) |-> StoI(args[i].value)]

CallReturns ==
    LET e == source.top[1].body.statements[1].expr
    IN  IF e.kind = "LITERAL" THEN StoI(e.value)
        ELSE CallArgs[IndexOf(ParamNames, e.name, 1)]

\* main has pushed its saved base pointer, 0, and nothing else when it
\* starts to push the arguments
StackBeforeCall == <<0>>

\* C1 (as claimed): after the call sequence, here when main has returned
\* and the VM has halted, the integer stack is the stack from before the
\* first argument plus one cell, the return value.
C1_CallLeavesReturnValueOnly ==
    (halted /\ ~error_flag) => stack = Append(StackBeforeCall, CallReturns)

\* C3 (as claimed): inside the callee, LOAD_BP -(n-i+1) pushes v_i, for i
\* in 1..n.
C3_LoadBpClaimed ==
    (calls.op = LOAD_BP /\ Len(call_stack) = 2 /\ ~error_flag) =>
        LET n == Len(CallArgs)
            i == n + 1 + OperandAt(bytecode, calls.at)
        IN  i \in 1..n => Top(stack) = CallArgs[i]

\* C3 (amended): inside the callee, LOAD_BP -(n-i+2) pushes v_i, for i in
\* 1..n; the code numbers the parameters from 0, and the offset of its
\* parameter i is -(n-i+1).
C3_LoadBpLoadsParameter ==
    (calls.op = LOAD_BP /\ Len(call_stack) = 2) =>
        LET n == Len(CallArgs)
            i == n + 2 + OperandAt(bytecode, calls.at)
        IN  /\ ~error_flag
            /\ i \in 1..n
            /\ Top(stack) = CallArgs[i]

\* C3 witness: the callee of a call with three arguments has loaded its
\* second parameter, and the first and the second argument differ
C3_Witness ==
    /\ calls.op = LOAD_BP
    /\ Len(call_stack) = 2
    /\ Len(CallArgs) = 3
    /\ OperandAt(bytecode, calls.at) = -3
    /\ CallArgs[1] # CallArgs[2]
    /\ Top(stack) = CallArgs[2]

----------------------------------------------------------------------------
(* Integer expressions:  int main() { return e; }                          *)
(*                  and  int main() { std::cout << e; return 0; }          *)
(* where e is a literal, a unary operator applied to a literal, or a      *)
(* binary operator applied to two operands l or -l, l a literal.           *)

MaxLiteral == 2

UnaryOps == {"-", "+", "!", "~"}
BinaryOps == {"+", "-", "*", "/", "%", "==", "!=", "<", ">", "<=", ">=",
              "&&", "||"}

Literals == {Number(v) : v \in 0..MaxLiteral}
Operands == Literals \cup {UnaryOp("-", l) : l \in Literals}
Expressions ==
    Literals \cup {UnaryOp(op, l) : op \in UnaryOps, l \in Literals}
             \cup {BinaryOp(op, a, b) : op \in BinaryOps,
                                        a \in Operands, b \in Operands}

\* int main() { return e; }
ReturnProgram(e) == Program(<<MainDecl(<<ReturnStmt(e)>>)>>)

\* int main() { std::cout << e; return 0; }
PrintProgram(e) ==
    Program(<<MainDecl(<<ExprStmt(BinaryOp("<<", Identifier("std::cout"), e)),
                         ReturnStmt(Number(0))>>)>>)

InitExpr ==
    \E e \in Expressions :
        CompiledInit(ReturnProgram(e)) \/ CompiledInit(PrintProgram(e))

SpecExpr == InitExpr /\ [][Step]_vars

\* The first statement of main, and the expression e in it
FirstStatement == source.top[1].body.statements[1]
Returned == FirstStatement.kind = "RETURN"
Expr == IF Returned THEN FirstStatement.expr ELSE FirstStatement.expr.right

\* The value of an integer expression under two's-complement 32-bit
\* arithmetic (C semantics: / and % truncate toward zero, comparisons and
\* logical operators yield 0 or 1)
RECURSIVE Eval(_)
Eval(e) ==
    IF e.kind = "LITERAL" THEN StoI(e.value)
    ELSE IF e.kind = "UNARY_OP"
    THEN LET v == Eval(e.operand)
         IN  CASE e.op = "-" -> Sub32(0, v)
               [] e.op = "+" -> v
               [] e.op = "!" -> IF v = 0 THEN 1 ELSE 0
               [] e.op = "~" -> Sub32(-1, v)
    ELSE LET a == Eval(e.left)
             b == Eval(e.right)
             Bit(c) == IF c THEN 1 ELSE 0
         IN  CASE e.op = "+" -> Add32(a, b)
               [] e.op = "-" -> Sub32(a, b)
               [] e.op = "*" -> Mul32(a, b)
               [] e.op = "/" -> TruncDiv(a, b)
               [] e.op = "%" -> TruncRem(a, b)
               [] e.op = "==" -> Bit(a = b)
               [] e.op = "!=" -> Bit(a # b)
               [] e.op = "<" -> Bit(a < b)
               [] e.op = ">" -> Bit(a > b)
               [] e.op = "<=" -> Bit(a <= b)
               [] e.op = ">=" -> Bit(a >= b)
               [] e.op = "&&" -> Bit(a # 0 /\ b # 0)
               [] e.op = "||" -> Bit(a # 0 \/ b # 0)

\* e divides by zero nowhere
RECURSIVE NoDivisionByZero(_)
NoDivisionByZero(e) ==
    IF e.kind = "LITERAL" THEN TRUE
    ELSE IF e.kind = "UNARY_OP" THEN NoDivisionByZero(e.operand)
    ELSE /\ NoDivisionByZero(e.left) /\ NoDivisionByZero(e.right)
         /\ e.op \in {"/", "%"} => Eval(e.right) # 0

\* C2 (as claimed): when the program `int main() { return e; }' has run,
\* e an integer expression that divides by zero nowhere, the top of the
\* integer stack is the value of e under two's-complement 32-bit
\* arithmetic.
C2_ExpressionValue ==
    (halted /\ Returned /\ NoDivisionByZero(Expr)) =>
        /\ ~error_flag
        /\ stack # <<>>
        /\ Top(stack) = Eval(Expr)

\* e is built with the operators that genUnaryOp and genBinaryOp emit
\* code for
Implemented(e) ==
    IF e.kind = "LITERAL" THEN TRUE
    ELSE IF e.kind = "UNARY_OP" THEN e.op \in {"-", "+"}
    ELSE e.op \notin {"&&", "||"}

\* C2, restricted: the same, for e built with unary - + and binary
\* + - * / % == != < > <= >= only.
C2_ImplementedOperators ==
    (halted /\ Returned /\ NoDivisionByZero(Expr) /\ Implemented(Expr)) =>
        /\ ~error_flag
        /\ stack # <<>>
        /\ Top(stack) = Eval(Expr)

\* The next call of step() dispatches the instruction op
Dispatches(op) ==
    /\ calls.method # "killed" /\ instruction_count < MaxSteps
    /\ ~halted /\ ~error_flag
    /\ ~SizeGE(instruction_pointer, Len(bytecode))
    /\ bytecode[instruction_pointer + 1] = op

\* The next instruction is op and the divisor, the top of the stack, is 0
ZeroDivisor(op) == Dispatches(op) /\ stack # <<>> /\ Top(stack) = 0

\* The stack without the operands of a binary instruction
WithoutOperands(s) == SubSeq(s, 1, Len(s) - 2)

\* C7: DIV (MOD) executed with a zero divisor sets the error flag with the
\* message "Division by zero" ("Modulo by zero"), halts the VM and pushes
\* no result; after it no instruction is executed, so the stack and the
\* output stay as they are.
C7_ZeroDivisorHalts ==
    [][/\ ZeroDivisor(DIV) =>
            /\ error_flag' /\ halted'
            /\ error_message' = "Division by zero"
            /\ stack' = WithoutOperands(stack)
            /\ output' = output
       /\ ZeroDivisor(MOD) =>
            /\ error_flag' /\ halted'
            /\ error_message' = "Modulo by zero"
            /\ stack' = WithoutOperands(stack)
            /\ output' = output
       /\ error_message \in {"Division by zero", "Modulo by zero"} =>
            /\ calls'.op = -1
            /\ UNCHANGED <<stack, output, instruction_pointer, halted,
                           error_flag, error_message>>]_vars

\* `std::cout << a / 0' has divided, step() was called again, and nothing
\* was printed
C7_Witness ==
    /\ ~Returned /\ Expr.kind = "BINARY_OP" /\ Expr.op = "/"
    /\ calls = Call("step", -1, -1)
    /\ halted /\ error_flag /\ error_message = "Division by zero"
    /\ output = <<>>

----------------------------------------------------------------------------
(* Bytecode written by hand.  A listing is a sequence of instructions,     *)
(* <<op>> or <<op, operand>>; the file holds the opcode byte and the four  *)
(* bytes of the operand.                                                   *)

RECURSIVE Assemble(_)
Assemble(listing) ==
    IF listing = <<>> THEN <<>>
    ELSE LET i == Head(listing)
         IN  (IF Len(i) = 1 THEN <<i[1]>> ELSE <<i[1]>> \o Int32Bytes(i[2]))
                \o Assemble(Tail(listing))

\* The VM is constructed and loads the file of a listing; src is what the
\* listing was written from
AssembledInit(src, listing) ==
    /\ source = src
    /\ NoCompiler
    /\ Holds(Loaded(Assemble(listing), <<>>, <<>>), Call("load", -1, -1))

\* The listings of 1 to n instructions of a pool
ListingsOf(pool, n) ==
    UNION {[1..k -> pool] : k \in 1..n}

----------------------------------------------------------------------------
(* The integer stack: one to MaxProgram instructions, then HALT.  Jumps    *)
(* and calls go to address 0.                                              *)

MaxProgram == 2

StackPool ==
    {<<PUSH, 1>>, <<POP>>, <<ADD>>, <<SUB>>, <<MUL>>, <<DIV>>, <<MOD>>,
     <<DUP>>, <<SWAP>>, <<PRINT>>, <<PRINT_STR>>, <<JZ, 0>>, <<JNZ, 0>>,
     <<CMP>>, <<STORE>>, <<STORE_BP, 0>>, <<LOAD_INDIRECT>>,
     <<STORE_INDIRECT>>, <<ALLOC>>, <<FREE>>, <<INT_TO_FP>>, <<PUSH_BP>>,
     <<POP_BP>>, <<CALL, 0>>, <<RET>>}

InitStack ==
    \E l \in ListingsOf(StackPool, MaxProgram) :
        AssembledInit(l, Append(l, <<HALT>>))

SpecStack == InitStack /\ [][Step]_vars

\* C5 (as claimed): in every reachable state the base pointer is at most
\* the length of the integer stack.
C5_BasePointerWithinStack ==
    base_pointer >= 0 /\ base_pointer <= Len(stack)

\* The integer operands an instruction pops or reads
Needs ==
    (POP :> 1) @@ (ADD :> 2) @@ (SUB :> 2) @@ (MUL :> 2) @@ (DIV :> 2)
      @@ (MOD :> 2) @@ (DUP :> 1) @@ (SWAP :> 2) @@ (PRINT :> 1)
      @@ (PRINT_STR :> 1) @@ (JZ :> 1) @@ (JNZ :> 1) @@ (CMP :> 2)
      @@ (STORE :> 2) @@ (STORE_BP :> 1) @@ (LOAD_INDIRECT :> 1)
      @@ (STORE_INDIRECT :> 2) @@ (ALLOC :> 1) @@ (FREE :> 1)
      @@ (INT_TO_FP :> 1)

UnderflowMessages == {"Stack underflow", "Stack underflow in SWAP"}

\* C8 (as claimed): an instruction that pops or reads more integer operands
\* than the stack holds sets the error flag with a stack-underflow message
\* and halts the VM.
C8_UnderflowDetected ==
    [][\A op \in DOMAIN Needs :
          (Dispatches(op) /\ Len(stack) < Needs[op]) =>
              /\ error_flag' /\ halted'
              /\ error_message' \in UnderflowMessages]_vars

\* C8, the flag alone: such an instruction sets the error flag and halts
\* the VM, whatever the message.
C8_UnderflowFlagged ==
    [][\A op \in DOMAIN Needs :
          (Dispatches(op) /\ Len(stack) < Needs[op]) =>
              error_flag' /\ halted']_vars

----------------------------------------------------------------------------
(* The heap: one to MaxRequests requests, then HALT.  A request allocates  *)
(* a block of 1..MaxSize cells and stores Filler in its first cell, or     *)
(* frees an address: -1, the static address HEAP_START - 1 or a heap       *)
(* address HEAP_START + k.                                                 *)

MaxRequests == 3
MaxSize == 2
Filler == 7

Alloc(size) == [kind |-> "alloc", size |-> size]
Free(addr) == [kind |-> "free", addr |-> addr]

Requests ==
    {Alloc(n) : n \in 1..MaxSize}
       \cup {Free(HEAP_START + k) : k \in -1..(MaxSize - 1)}
       \cup {Free(-1)}

\* The instructions of a request
RequestCode(r) ==
    IF r.kind = "alloc"
    THEN <<<<PUSH, Filler>>, <<PUSH, r.size>>, <<ALLOC>>, <<STORE_INDIRECT>>>>
    ELSE <<<<PUSH, r.addr>>, <<FREE>>>>

RECURSIVE HeapListing(_)
HeapListing(requests) ==
    IF requests = <<>> THEN <<<<HALT>>>>
    ELSE RequestCode(Head(requests)) \o HeapListing(Tail(requests))

InitHeap ==
    \E r \in ListingsOf(Requests, MaxRequests) :
        AssembledInit(r, HeapListing(r))

SpecHeap == InitHeap /\ [][Step]_vars

\* The cells of a block, and the end of the last cell any block covers
CellsOf(block) == block.start..(block.start + block.size - 1)
MaxEnd(blocks) ==
    IF blocks = <<>> THEN 0
    ELSE LET ends == {blocks[i].start + blocks[i].size : i \in DOMAIN blocks}
         IN  CHOOSE e \in ends : \A f \in ends : f <= e

\* The blocks partition [0, max_end): every cell lies in exactly one block
Partition(blocks) ==
    \A c \in 0..(MaxEnd(blocks) - 1) :
        Cardinality({i \in DOMAIN blocks : c \in CellsOf(blocks[i])}) = 1

\* The addresses a sequence of requests without frees returns
RECURSIVE AllocatedAt(_, _)
AllocatedAt(requests, at) ==
    IF requests = <<>> THEN {}
    ELSE {HEAP_START + at}
            \cup AllocatedAt(Tail(requests), at + Head(requests).size)

\* The requests are ALLOCs followed by FREEs of distinct addresses that
\* the ALLOCs returned
AllocsThenFrees(requests) ==
    \E n \in 0..Len(requests) :
        /\ \A i \in 1..n : requests[i].kind = "alloc"
        /\ \A i \in (n + 1)..Len(requests) :
              /\ requests[i].kind = "free"
              /\ requests[i].addr \in AllocatedAt(SubSeq(requests, 1, n), 0)
              /\ \A j \in (n + 1)..(i - 1) :
                    requests[j].kind = "free"
                       => requests[j].addr # requests[i].addr

\* C4: while ALLOC requests followed by FREEs of a subset of the returned
\* addresses run, the heap block list partitions [0, max_end) (no two
\* blocks overlap, so no cell lies in two allocated blocks), and no
\* request fails.
C4_HeapPartition ==
    AllocsThenFrees(source) => Partition(heap_blocks) /\ ~error_flag

\* Two blocks were allocated and the first of them was freed
C4_Witness ==
    /\ AllocsThenFrees(source) /\ halted
    /\ Len(heap_blocks) = 2
    /\ ~heap_blocks[1].allocated /\ heap_blocks[2].allocated
    /\ heap_blocks[2].start = heap_blocks[1].size

\* The contents of heap cell c
HeapCell(h, c) == VecGet(h, c, 0)

\* C9: FREE of the start address of a currently allocated block marks that
\* block free, zeroes its cells and changes no other cell and no other
\* block; FREE of any other address (static, interior, never allocated, or
\* of a block already freed) raises an error and changes no block and no
\* cell.
C9_FreeOnlyAllocatedStarts ==
    [][(Dispatches(FREE) /\ stack # <<>>) =>
          LET addr == Top(stack)
              starts == {i \in DOMAIN heap_blocks :
                            /\ heap_blocks[i].allocated
                            /\ HEAP_START + heap_blocks[i].start = addr}
          IN  IF starts # {}
              THEN /\ ~error_flag'
                   /\ \E i \in starts :
                        /\ heap_blocks' =
                              [heap_blocks EXCEPT ![i].allocated = FALSE]
                        /\ \A c \in 0..(heap.size - 1) :
                              HeapCell(heap', c) =
                                  IF c \in CellsOf(heap_blocks[i]) THEN 0
                                  ELSE HeapCell(heap, c)
              ELSE /\ error_flag' /\ halted'
                   /\ heap_blocks' = heap_blocks
                   /\ heap' = heap]_vars

\* A FREE has freed a block and zeroed its first cell, and another block is
\* still allocated with the filler in its first cell
C9_Witness ==
    /\ calls.op = FREE /\ ~error_flag
    /\ \E i, j \in DOMAIN heap_blocks :
          /\ ~heap_blocks[i].allocated
          /\ HeapCell(heap, heap_blocks[i].start) = 0
          /\ heap_blocks[j].allocated
          /\ HeapCell(heap, heap_blocks[j].start) = Filler

----------------------------------------------------------------------------
(* reset(): the requests of the heap family run, and the VM is reset at    *)
(* any moment and runs the program again.                                  *)

SpecReset == InitHeap /\ [][Step \/ Reset]_vars

\* C6: after reset() every piece of runtime state has the value it has on
\* a freshly constructed VM that loaded the same bytecode and string
\* table.
C6_ResetRestoresInitialState ==
    calls.method = "reset" =>
        /\ instruction_pointer = 0 /\ stack = <<>> /\ call_stack = <<>>
        /\ base_pointer = 0 /\ cmp_flag = 0
        /\ fpu_regs = NewVM.fpu_regs /\ fpu_top = 0
        /\ memory = NewVM.memory /\ float_memory = NewVM.float_memory
        /\ ~halted /\ ~error_flag /\ error_message = ""
        /\ instruction_count = 0 /\ max_stack_size = 0
        /\ heap = NewVM.heap /\ heap_blocks = NewVM.heap_blocks

----------------------------------------------------------------------------
(* The FPU register stack: one to MaxFpuProgram instructions, then a jump  *)
(* back to address 0, so that the instructions repeat.                     *)

MaxFpuProgram == 2

\* FPUSH 1.0f: the operand is the IEEE 754 single 1.0
FPushOne == <<FPUSH, 1065353216>>

FpuPool ==
    {FPushOne, <<FPOP>>, <<FADD>>, <<FSUB>>, <<FMUL>>, <<FDIV>>,
     <<FLOAD, 0>>, <<FSTORE, 0>>, <<FPRINT>>, <<FCMP>>, <<FNEG>>, <<FDUP>>,
     <<INT_TO_FP>>, <<FP_TO_INT>>, <<PUSH, 1>>}

InitFpu ==
    \E l \in ListingsOf(FpuPool, MaxFpuProgram) :
        AssembledInit(l, l \o <<<<JMP, 0>>>>)

SpecFpu == InitFpu /\ [][Step]_vars

\* C10: after any sequence of FPU instructions, 0 <= fpu_top < 8.
C10_FpuTopInRange == fpu_top >= 0 /\ fpu_top < FPU_SLOTS

\* Nine values were pushed on the eight registers
C10_Witness ==
    /\ source = <<FPushOne>>
    /\ calls.op = FPUSH /\ instruction_count = 17
    /\ fpu_top = 7 /\ fpeek(VM) = <<1, 1>>

----------------------------------------------------------------------------
(* Labels: generate() on a new generator, where the code it emits is a     *)
(* script of one to MaxScript steps: a jump or call to a label, the        *)
(* definition of a label, or a one-byte instruction.  The VM then loads    *)
(* the bytecode.                                                           *)

MaxScript == 4

LabelNames == {"main", "else_0"}

JumpTo(op, label) == [kind |-> "jump", op |-> op, label |-> label]
Define(label) == [kind |-> "define", op |-> -1, label |-> label]
Emit(op) == [kind |-> "emit", op |-> op, label |-> ""]

LabelSteps ==
    {JumpTo(op, l) : op \in {JMP, CALL}, l \in LabelNames}
       \cup {Define(l) : l \in LabelNames} \cup {Emit(HALT)}

\* One step of the script
genLabelStep(cg, s) ==
    IF s.kind = "jump" THEN emitJump(cg, s.op, s.label)
    ELSE IF s.kind = "define" THEN defineLabel(cg, s.label)
    ELSE emit(cg, s.op)

RECURSIVE genLabelSteps(_, _)
genLabelSteps(cg, script) ==
    IF script = <<>> THEN cg
    ELSE genLabelSteps(genLabelStep(cg, Head(script)), Tail(script))

\* CodeGenerator::generate, where genProgram emits the script
generateScript(cg, script) ==
    fixupLabels(
        genLabelSteps([cg EXCEPT !.bytecode = <<>>,
                                 !.symbols = [n \in {} |-> 0],
                                 !.next_memory_addr = 0,
                                 !.label_counter = 0],
                      script))

\* A VM is constructed; nothing is loaded yet
Constructed(src) ==
    source = src /\ NoCompiler /\ Holds(NewVM, Call("new", -1, -1))

InitLabels == \E s \in ListingsOf(LabelSteps, MaxScript) : Constructed(s)

\* The VM loads the bytecode generate() returned for the script
LoadScript ==
    /\ calls.method = "new"
    /\ Becomes(Loaded(generateScript(NewCG, source).bytecode, <<>>, <<>>),
               Call("load", -1, -1))
    /\ UNCHANGED compiler

SpecLabels == InitLabels /\ [][LoadScript]_vars

\* The bytes a step of a script emits
StepSize(s) == IF s.kind = "jump" THEN 5 ELSE IF s.kind = "emit" THEN 1 ELSE 0

\* The code offset at which step i of a script begins
RECURSIVE OffsetOf(_, _)
OffsetOf(script, i) ==
    IF i = 1 THEN 0 ELSE OffsetOf(script, i - 1) + StepSize(script[i - 1])

\* The steps of a script that define label l
DefinitionsOf(script, l) ==
    {i \in DOMAIN script : script[i].kind = "define" /\ script[i].label = l}

\* The code offset at which defineLabel was called for l, the last time
DefinedAt(script, l) ==
    OffsetOf(script, CHOOSE i \in DefinitionsOf(script, l) :
                        \A j \in DefinitionsOf(script, l) : j <= i)

\* C11: after generate(), every instruction emitted with emitJump keeps its
\* opcode and has as operand the code offset at which defineLabel was
\* called for its label, before or after the reference, and 0 when the
\* label is never defined.
C11_JumpOperandsAreLabelOffsets ==
    calls.method = "load" =>
        \A i \in DOMAIN source :
            source[i].kind = "jump" =>
                /\ bytecode[OffsetOf(source, i) + 1] = source[i].op
                /\ OperandAt(bytecode, OffsetOf(source, i)) =
                      IF DefinitionsOf(source, source[i].label) = {} THEN 0
                      ELSE DefinedAt(source, source[i].label)

\* A reference before the definition, one after it, and a reference to a
\* label that is never defined
C11_Witness ==
    /\ calls.method = "load"
    /\ source = <<JumpTo(CALL, "main"), Define("main"), JumpTo(JMP, "main"),
                  JumpTo(JMP, "else_0")>>
    /\ OperandAt(bytecode, 0) = 5 /\ OperandAt(bytecode, 5) = 5
    /\ OperandAt(bytecode, 10) = 0

----------------------------------------------------------------------------
(* Segmented memory: one to MaxAccesses accesses, then HALT.  An access    *)
(* stores Filler at an address or loads from it, with the address as       *)
(* operand or on the stack.                                                *)

MaxAccesses == 2

\* The first and the last cell of the initial static memory, the first
\* cell beyond it, the last static address and the first heap address
Addresses == {0, MEMORY_SIZE - 1, MEMORY_SIZE, HEAP_START - 1, HEAP_START}

Access(op, addr) == [op |-> op, addr |-> addr]

Accesses ==
    {Access(op, a) : op \in {LOAD, LOAD_INDIRECT, STORE, STORE_INDIRECT},
                     a \in Addresses}

\* The instructions of an access
AccessCode(a) ==
    IF a.op = LOAD THEN <<<<LOAD, a.addr>>>>
    ELSE IF a.op = LOAD_INDIRECT THEN <<<<PUSH, a.addr>>, <<LOAD_INDIRECT>>>>
    ELSE <<<<PUSH, Filler>>, <<PUSH, a.addr>>, <<a.op>>>>

RECURSIVE MemoryListing(_)
MemoryListing(accesses) ==
    IF accesses = <<>> THEN <<<<HALT>>>>
    ELSE AccessCode(Head(accesses)) \o MemoryListing(Tail(accesses))

InitMemory ==
    \E a \in ListingsOf(Accesses, MaxAccesses) :
        AssembledInit(a, MemoryListing(a))

SpecMemory == InitMemory /\ [][Step]_vars

\* The address the next instruction loads from, -1 if it is no load
LoadAddress ==
    IF Dispatches(LOAD) THEN OperandAt(bytecode, instruction_pointer)
    ELSE IF Dispatches(LOAD_INDIRECT) /\ stack # <<>> THEN Top(stack)
    ELSE -1

\* The address the next instruction stores to, -1 if it is no store
StoreAddress ==
    IF (Dispatches(STORE) \/ Dispatches(STORE_INDIRECT)) /\ Len(stack) >= 2
    THEN Top(stack) ELSE -1

\* C12: a load from a static address 0 <= addr < heap_start succeeds and
\* pushes the value last stored there, 0 if none was; a store to a static
\* address succeeds and puts the value in that cell of static memory;
\* neither touches the heap, and an access of an address >= heap_start
\* does not touch static memory.
C12_StaticAccessSucceeds ==
    [][/\ LoadAddress \in 0..(HEAP_START - 1) =>
            /\ ~error_flag'
            /\ stack' # <<>> /\ Top(stack') = VecGet(memory, LoadAddress, 0)
            /\ heap' = heap
       /\ StoreAddress \in 0..(HEAP_START - 1) =>
            /\ ~error_flag'
            /\ VecGet(memory', StoreAddress, 0) = stack[Len(stack) - 1]
            /\ heap' = heap
       /\ (LoadAddress >= HEAP_START \/ StoreAddress >= HEAP_START) =>
            memory' = memory]_vars

----------------------------------------------------------------------------
(* The bytecode file.  A std::string is the sequence of its bytes; a file  *)
(* is the sequence of its bytes, and a stream is a file with the position  *)
(* of the next byte and the fail bit.                                      *)

\* file.write of a uint32_t: four bytes, little-endian
UInt32Bytes(v) == Int32Bytes(v)

\* memcpy of four bytes into a uint32_t
BytesUInt32(b) == b[1] + 256 * b[2] + 65536 * b[3] + 16777216 * b[4]

\* saveToFile: the length and the bytes of each string of the table
RECURSIVE StringRecords(_)
StringRecords(strings) ==
    IF strings = <<>> THEN <<>>
    ELSE UInt32Bytes(Len(Head(strings))) \o Head(strings)
            \o StringRecords(Tail(strings))

\* saveToFile that writes a NUL after the bytes of each string
RECURSIVE TerminatedRecords(_)
TerminatedRecords(strings) ==
    IF strings = <<>> THEN <<>>
    ELSE UInt32Bytes(Len(Head(strings))) \o Head(strings) \o <<0>>
            \o TerminatedRecords(Tail(strings))

saveToFileTerminated(cg) ==
    UInt32Bytes(Len(cg.string_table)) \o TerminatedRecords(cg.string_table)
       \o UInt32Bytes(Len(cg.bytecode)) \o cg.bytecode

\* CodeGenerator::saveToFile: the bytes of the file it writes
saveToFile(cg) ==
    UInt32Bytes(Len(cg.string_table)) \o StringRecords(cg.string_table)
       \o UInt32Bytes(Len(cg.bytecode)) \o cg.bytecode

\* std::ifstream on an open file
Stream(file) == [file |-> file, pos |-> 0, fail |-> FALSE]

\* The bytes file.read(buffer, n) gets: as many as are left, at most n
ReadBytes(st, n) ==
    SubSeq(st.file, st.pos + 1,
           IF st.pos + n > Len(st.file) THEN Len(st.file) ELSE st.pos + n)

\* The stream after file.read(buffer, n): it fails when fewer than n bytes
\* are left
AfterRead(st, n) ==
    IF st.pos + n > Len(st.file)
    THEN [st EXCEPT !.pos = Len(st.file), !.fail = TRUE]
    ELSE [st EXCEPT !.pos = @ + n]

\* loadFromFile: what it returns with, the VM and the value
LoadResult(vm, ok) == [vm |-> vm, val |-> ok]

\* loadFromFile: the bytecode is read
readCode(vm, st, code_size) ==
    IF AfterRead(st, code_size).fail
    THEN LoadResult(
            error([vm EXCEPT !.bytecode =
                     [i \in 1..code_size |->
                         IF st.pos + i <= Len(st.file) THEN st.file[st.pos + i]
                         ELSE 0]],
                  "Failed to read bytecode"),
            FALSE)
    ELSE LoadResult(reset([vm EXCEPT !.bytecode = ReadBytes(st, code_size)]),
                    TRUE)

\* loadFromFile: the size of the bytecode is read
readCodeSize(vm, st) ==
    IF AfterRead(st, 4).fail
    THEN LoadResult(error(vm, "Failed to read bytecode size"), FALSE)
    ELSE readCode(vm, AfterRead(st, 4), BytesUInt32(ReadBytes(st, 4)))

\* loadFromFile: the loop over the strings, with i strings still to read
RECURSIVE readStrings(_, _, _)

\* loadFromFile: the bytes of a string of length len are read
readStringData(vm, st, i, len) ==
    IF AfterRead(st, len).fail
    THEN LoadResult(error(vm, "Failed to read string data"), FALSE)
    ELSE readStrings([vm EXCEPT !.string_table =
                         Append(@, ReadBytes(st, len))],
                     AfterRead(st, len), i - 1)

readStrings(vm, st, i) ==
    IF i = 0 THEN readCodeSize(vm, st)
    ELSE IF AfterRead(st, 4).fail
    THEN LoadResult(error(vm, "Failed to read string length"), FALSE)
    ELSE readStringData(vm, AfterRead(st, 4), i, BytesUInt32(ReadBytes(st, 4)))

\* VirtualMachine::loadFromFile on a file that exists
loadFromFile(vm, file) ==
    IF AfterRead(Stream(file), 4).fail
    THEN LoadResult(error(vm, "Failed to read string table size"), FALSE)
    ELSE readStrings([vm EXCEPT !.string_table = <<>>],
                     AfterRead(Stream(file), 4),
                     BytesUInt32(ReadBytes(Stream(file), 4)))

(* The family: a generator holds up to MaxStrings strings and up to        *)
(* MaxCode bytes of code and saves them; the file keeps its first `keep'   *)
(* bytes; a new VM loads it.                                               *)

MaxStrings == 2
MaxCode == 2

\* The strings "", "h" and "hi", and the bytes of HALT and PUSH
FileStrings == {<<>>, <<104>>, <<104, 105>>}
FileBytes == {HALT, PUSH}

\* The sequences of at most n elements of a pool
UpTo(pool, n) == {<<>>} \cup ListingsOf(pool, n)

\* The generator that holds the strings and the code of src
Holding(src) ==
    [NewCG EXCEPT !.string_table = src.strings, !.bytecode = src.code]

\* The file the VM is given
FileOf(src) == SubSeq(saveToFile(Holding(src)), 1, src.keep)

InitFile ==
    \E strings \in UpTo(FileStrings, MaxStrings),
       code \in UpTo(FileBytes, MaxCode) :
        \E keep \in 0..Len(saveToFile(
                             [NewCG EXCEPT !.string_table = strings,
                                           !.bytecode = code])) :
            Constructed([strings |-> strings, code |-> code, keep |-> keep])

\* What a call of loadFromFile is recorded as
LoadCall(ok) == Call(IF ok THEN "load" ELSE "load failed", -1, -1)

LoadedTo(result) == Becomes(result.vm, LoadCall(result.val))

\* The VM loads the file
LoadFile ==
    /\ calls.method = "new"
    /\ LoadedTo(loadFromFile(VM, FileOf(source)))
    /\ UNCHANGED compiler

SpecFile == InitFile /\ [][LoadFile]_vars

\* The file is whole
Whole(src) == src.keep = Len(saveToFile(Holding(src)))

\* C13: loadFromFile of the file saveToFile wrote returns true and leaves
\* the VM with the generator's string table, in order, and its code
\* bytes; loadFromFile of a truncated file returns false with the error
\* flag set.
C13_FileRoundTrip ==
    calls.method # "new" =>
        IF Whole(source)
        THEN /\ calls.method = "load" /\ ~error_flag
             /\ string_table = source.strings
             /\ bytecode = source.code
        ELSE calls.method = "load failed" /\ error_flag

\* The whole file of two strings, one of them empty, and two bytes of code
\* was loaded
C13_Witness ==
    /\ calls.method = "load" /\ Whole(source)
    /\ string_table = <<<<104, 105>>, <<>>>>
    /\ bytecode = <<PUSH, HALT>>

\* A file cut inside the bytes of a string was refused
C13_WitnessTruncated ==
    /\ calls.method = "load failed" /\ source.keep = 9
    /\ source.strings = <<<<104, 105>>>>
    /\ error_message = "Failed to read string data"

----------------------------------------------------------------------------
(* The lexer on every short text: a Lexer is constructed on the text and   *)
(* tokenize() is called once.                                              *)

MaxSource == 4

Alphabet ==
    {"a", "1", " ", "\n", "<", ">", "=", "-", "*", ".", ":", "/", "\"", "'",
     "@", ";"}

Texts == UNION {[1..n -> Alphabet] : n \in 0..MaxSource}

InitLexer ==
    /\ source \in Texts
    /\ lexer = Lexer(source)
    /\ parser = NoParser
    /\ parsed = NullNode
    /\ Holds(NewVM, Call("new", -1, -1))

\* Lexer::tokenize, called once on the constructed lexer
Tokenize ==
    /\ lexer.tokens = <<>>
    /\ lexer' = tokenize(lexer)
    /\ UNCHANGED <<source, parser, parsed, machine>>

SpecLexer == InitLexer /\ [][Tokenize]_vars

\* tokenize() has returned
Tokenized == lexer.tokens # <<>>

\* The text begins with the characters of the word
StartsWith(text, word) ==
    Len(text) >= Len(word) /\ Str(SubSeq(text, 1, Len(word))) = word

\* The operators with a token kind of their own, longest first
DedicatedOperators ==
    <<"->*", "...", "<=", ">=", "<<", ">>", "->", ".*", "::", "<", ">">>

DedicatedKind ==
    <<"ARROW_STAR", "ELLIPSIS", "LESS_EQUAL", "GREATER_EQUAL", "LEFT_SHIFT",
      "RIGHT_SHIFT", "ARROW", "DOT_STAR", "SCOPE_RESOLUTION", "LESS",
      "GREATER">>

\* The text begins with DedicatedOperators[i] and with none before it, nor
\* with the longer operators <<= and >>= of the language
LongestMatch(text, i) ==
    /\ StartsWith(text, DedicatedOperators[i])
    /\ \A j \in 1..(i - 1) : ~StartsWith(text, DedicatedOperators[j])
    /\ ~StartsWith(text, "<<=") /\ ~StartsWith(text, ">>=")

\* C14: a text that begins with one of the operators < > <= >= << >> -> ->*
\* .* :: ... gives, as its first token, the longest of them the text begins
\* with, of that operator's own kind, at line 1, column 1.
C14_OperatorsHaveDedicatedKinds ==
    Tokenized =>
        \A i \in DOMAIN DedicatedOperators :
            LongestMatch(source, i) =>
                lexer.tokens[1] = Token(DedicatedKind[i],
                                        DedicatedOperators[i], 1, 1)

\* The offset of the first character of the line: that after the newline
\* that ends the line before, the end of the text if there is no such line
RECURSIVE LineStart(_, _)
LineStart(text, line) ==
    IF line = 1 THEN 0
    ELSE LET ends == {i \in (LineStart(text, line - 1) + 1)..Len(text) :
                          text[i] = "\n"}
         IN  IF ends = {} THEN Len(text)
             ELSE CHOOSE i \in ends : \A j \in ends : i <= j

\* The kinds of token whose value is the text of the token
Positioned ==
    {"IDENTIFIER", "NUMBER", "LEFT_PAREN", "RIGHT_PAREN", "LEFT_BRACE",
     "RIGHT_BRACE", "LEFT_BRACKET", "RIGHT_BRACKET", "COMMA", "SEMICOLON",
     "COLON", "DOT", "SCOPE_RESOLUTION"}

\* The text at the line and column of the token is the value of the token
ValueAtPosition(text, t) ==
    /\ t.line >= 1 /\ t.column >= 1
    /\ Substr(text, LineStart(text, t.line) + t.column - 1, Len(t.value))
          = t.value

\* C15: every identifier, number and punctuation token of the token list
\* carries the 1-based line and column of its first character: the source
\* text from that position on begins with the value of the token.
C15_TokenPositions ==
    Tokenized =>
        \A i \in DOMAIN lexer.tokens :
            lexer.tokens[i].type \in Positioned =>
                ValueAtPosition(source, lexer.tokens[i])

RECURSIVE ClosingQuote(_, _, _)
\* The offset of the quote that closes the literal whose text begins at
\* offset i, -1 if there is none; the character after a backslash is part
\* of the literal
ClosingQuote(text, i, quote) ==
    IF i >= Len(text) THEN -1
    ELSE IF text[i + 1] = "\\" THEN ClosingQuote(text, i + 2, quote)
    ELSE IF text[i + 1] = quote THEN i
    ELSE ClosingQuote(text, i + 1, quote)

\* The offset of the first */ at or after offset i, -1 if there is none
ClosingComment(text, i) ==
    LET ends == {j \in i..(Len(text) - 2) :
                     text[j + 1] = "*" /\ text[j + 2] = "/"}
    IN  IF ends = {} THEN -1 ELSE CHOOSE j \in ends : \A k \in ends : j <= k

\* The offset of the first newline at or after offset i, the end of the
\* text if there is none
EndOfLine(text, i) ==
    LET ends == {j \in i..(Len(text) - 1) : text[j + 1] = "\n"}
    IN  IF ends = {} THEN Len(text)
        ELSE CHOOSE j \in ends : \A k \in ends : j <= k

\* The characters that tokens are made of, and white space
Known ==
    Letters \cup {Digits[i] : i \in DOMAIN Digits} \cup single_operators \cup DOMAIN Punctuation
        \cup {"_", "<", ">", " ", "\t", "\r", "\n"}

RECURSIVE Malformed(_, _)
\* From offset i on the text has an unterminated string or character
\* literal, an unterminated block comment or an unknown character
Malformed(text, i) ==
    IF i >= Len(text) THEN FALSE
    ELSE IF text[i + 1] \in {"\"", "'"}
    THEN ClosingQuote(text, i + 1, text[i + 1]) = -1
            \/ Malformed(text, ClosingQuote(text, i + 1, text[i + 1]) + 1)
    ELSE IF text[i + 1] = "/" /\ i + 1 < Len(text) /\ text[i + 2] = "*"
    THEN ClosingComment(text, i + 2) = -1
            \/ Malformed(text, ClosingComment(text, i + 2) + 2)
    ELSE IF text[i + 1] = "#"
            \/ (text[i + 1] = "/" /\ i + 1 < Len(text) /\ text[i + 2] = "/")
    THEN Malformed(text, EndOfLine(text, i))
    ELSE text[i + 1] \notin Known \/ Malformed(text, i + 1)

\* C16: after tokenize() the error flag is set exactly for a source with an
\* unterminated string or character literal, an unterminated block comment
\* or an unknown character, and the token list ends with the END_OF_FILE
\* token either way.
C16_ErrorFlagIffMalformed ==
    Tokenized =>
        /\ lexer.error_flag <=> Malformed(source, 0)
        /\ lexer.tokens[Len(lexer.tokens)].type = "END_OF_FILE"

----------------------------------------------------------------------------
(* The parser on every short program: the words of the program, one space  *)
(* between them, are the source text; in a wrapped program they stand      *)
(* between `for (' and `) a ;'.  The text is tokenized, then a Parser is   *)
(* constructed on the tokens and parseProgram() is called.                 *)

MaxWords == 4

Words ==
    {"int", "a", "1", "+", "=", ";", ",", "::", ".", ":", "(", ")", "[", "]"}

\* The characters of a word
Chars ==
    [w \in Words |->
        CASE w = "int" -> <<"i", "n", "t">>
          [] w = "::" -> <<":", ":">>
          [] OTHER -> <<w>>]

RECURSIVE Spaced(_)
\* The text of the words, a space before each
Spaced(words) ==
    IF words = <<>> THEN <<>>
    ELSE <<" ">> \o Chars[Head(words)] \o Spaced(Tail(words))

\* The source text of a program of the family
TextOf(src) ==
    IF src.wrapped
    THEN <<"f", "o", "r", " ", "(">> \o Spaced(src.words)
             \o <<" ", ")", " ", "a", " ", ";">>
    ELSE Tail(Spaced(src.words))

ParserSources ==
    [wrapped : BOOLEAN,
     words : UNION {[1..n -> Words] : n \in 1..MaxWords}]

InitParser ==
    /\ source \in ParserSources
    /\ lexer = Lexer(TextOf(source))
    /\ parser = NoParser
    /\ parsed = NullNode
    /\ Holds(NewVM, Call("new", -1, -1))

\* Parser parser(tokens); parser.parseProgram(): the parser is left as it
\* was when parseProgram() returned or threw
Parse ==
    /\ Tokenized
    /\ parser = NoParser
    /\ \E r \in {parseProgram(Parser(lexer.tokens))} :
            parser' = r.p /\ parsed' = r.node
    /\ UNCHANGED <<source, lexer, machine>>

SpecParser == InitParser /\ [][Tokenize \/ Parse]_vars

\* The nodes a node holds, in the order of the source text
Parts(node) ==
    CASE node.kind = "PROGRAM" -> node.top
      [] node.kind = "UNARY_OP" -> <<node.operand>>
      [] node.kind = "BINARY_OP" -> <<node.left, node.right>>
      [] node.kind = "CALL" -> <<node.callee>> \o node.args
      [] node.kind \in {"EXPR_STMT", "RETURN"} -> <<node.expr>>
      [] node.kind = "BLOCK" -> node.statements
      [] node.kind = "VAR_DECL" -> <<node.init>>
      [] node.kind = "FUNC_DECL" -> <<node.body>>
      [] node.kind = "MEMBER_ACCESS" -> <<node.object>>
      [] node.kind = "ARRAY_SUBSCRIPT" -> <<node.array, node.index>>
      [] node.kind = "IF" -> <<node.cond, node.thenBranch, node.elseBranch>>
      [] node.kind = "WHILE" -> <<node.cond, node.body>>
      [] node.kind = "FOR" -> <<node.init, node.cond, node.post, node.body>>
      [] OTHER -> <<>>

RECURSIVE NodesOf(_)
\* The node and every node below it, null pointers left out
NodesOf(node) ==
    IF node = NullNode THEN {}
    ELSE {node} \cup UNION {NodesOf(Parts(node)[i]) : i \in DOMAIN Parts(node)}

\* The line and column a node carries
Position(node) == <<node.line, node.column>>

\* The kinds of node whose source text begins with the text of their first
\* part: left operand, callee, object, array, expression
BeginsWithPart(node) ==
    /\ node.kind \in {"BINARY_OP", "CALL", "MEMBER_ACCESS", "ARRAY_SUBSCRIPT",
                      "EXPR_STMT"}
    /\ Parts(node)[1] # NullNode

RECURSIVE FirstToken(_)
\* The position of the first token of the text that forms the node, given
\* the positions of the nodes that are a single token or begin with their
\* own token
FirstToken(node) ==
    IF BeginsWithPart(node) THEN FirstToken(Parts(node)[1])
    ELSE Position(node)

\* The parser has returned a Program
ParsedProgram == parser # NoParser /\ ~parser.thrown

\* The first token the parser reads
FirstOfSource == ParserPeek(Parser(lexer.tokens))

\* C17: every node the parser builds carries the line and column of the
\* first token of the source text that forms it: a node that begins with
\* its left operand, callee, object, array or expression carries the
\* position that part begins at, and the first node of the program carries
\* the position of the first token of the source.
C17_NodesAtFirstToken ==
    ParsedProgram =>
        /\ \A n \in NodesOf(parsed) :
               n.kind # "PROGRAM" => Position(n) = FirstToken(n)
        /\ parsed.top # <<>> =>
               Position(parsed.top[1]) =
                   <<FirstOfSource.line, FirstOfSource.column>>


\* The parser has run, to its end or to a throw
ParseDone == parser # NoParser

\* The source begins with the declaration `int a`
DeclaresA ==
    /\ Len(source.words) >= 2
    /\ source.words[1] = "int"
    /\ source.words[2] = "a"

\* The words that continue or end the declaration after its first
\* declarator: terminator, next declarator, initializer, constructor
\* arguments, array size
AfterDeclarator == {";", ",", "=", "(", "["}

\* The declaration `int a` is a statement of the program and neither a
\* semicolon nor more of the declaration follows it
MissingSemicolon ==
    /\ ~source.wrapped
    /\ DeclaresA
    /\ Len(source.words) > 2 => source.words[3] \notin AfterDeclarator

\* The declaration `int a` is the init-clause of a range-based for
RangeForInit ==
    /\ source.wrapped
    /\ DeclaresA
    /\ Len(source.words) = 4
    /\ source.words[3] = ":"
    /\ source.words[4] \in {"a", "1"}

\* C18: a variable declaration without its semicolon is a parse error that
\* aborts the parse, unless the declaration is the init-clause of a
\* range-based for, which is accepted.
C18_DeclarationNeedsSemicolon ==
    ParseDone =>
        /\ MissingSemicolon => parser.thrown
        /\ RangeForInit => ~parser.thrown


----------------------------------------------------------------------------
(* The heap under interleaved requests: one to MaxInterleaved requests,    *)
(* each an ALLOC of 1 or 2 cells or a FREE of the first heap address,      *)
(* then HALT.                                                              *)

MaxInterleaved == 6

InterleavedRequests == {Alloc(1), Alloc(2), Free(HEAP_START)}

InitInterleaved ==
    \E r \in ListingsOf(InterleavedRequests, MaxInterleaved) :
        AssembledInit(r, HeapListing(r))

SpecInterleaved == InitInterleaved /\ [][Step]_vars

\* Two blocks have a cell in common
Overlap(a, b) == CellsOf(a) \cap CellsOf(b) # {}

\* C19: under any interleaving of ALLOC and FREE no two allocated heap
\* blocks overlap, so ALLOC never returns an address inside a block that
\* is currently allocated.
C19_AllocatedBlocksDisjoint ==
    \A i, j \in DOMAIN heap_blocks :
        (i # j /\ heap_blocks[i].allocated /\ heap_blocks[j].allocated)
            => ~Overlap(heap_blocks[i], heap_blocks[j])


----------------------------------------------------------------------------
(* Top-level variables: int g = v; int h = w; int main() { return g; }     *)
(* or return h, with 1 <= v, w <= MaxGlobal, so that a cell that holds 0   *)
(* has not been initialized.                                               *)

MaxGlobal == 5

GlobalNames == {"g", "h"}

GlobalProgram(v, w, returned) ==
    Program(<<VarDecl(IntType, "g", Number(v)),
              VarDecl(IntType, "h", Number(w)),
              MainDecl(<<ReturnStmt(Identifier(returned))>>)>>)

GlobalPrograms ==
    {GlobalProgram(v, w, returned) :
        <<v, w, returned>> \in (1..MaxGlobal) \X (1..MaxGlobal) \X GlobalNames}

InitGlobals == \E ast \in GlobalPrograms : CompiledInit(ast)

SpecGlobals == InitGlobals /\ [][Step]_vars

\* The address the generator gave the variable declared by decl, and the
\* value of its initializer
GlobalAddress(cg, decl) == findSymbol(cg, decl.varName).offset
InitialValue(decl) == StoI(decl.init.value)

\* The address of the first instruction of main
MainAddress(cg) == LabelOf(cg, "main").address

\* The cell of the variable holds the value of its initializer
Initialized(cg, decl) ==
    VecGet(memory, GlobalAddress(cg, decl), 0) = InitialValue(decl)

\* The first instruction of main is about to run, or the program has ended
MainEntered(cg) == instruction_pointer = MainAddress(cg) \/ halted

\* C20: when the first instruction of main is about to run, and from then
\* on to the end of the program, the cell of every variable declared at top
\* level holds the value of its initializer.
C20_GlobalsInitializedBeforeMain ==
    MainEntered(Compile(source)) =>
        \A k \in {1, 2} : Initialized(Compile(source), source.top[k])


----------------------------------------------------------------------------
(* Arrays: int main() { int a[n]; int b = v; a[i] = w; return b; } with    *)
(* 1 <= n <= MaxArray, 0 <= i < n and 1 <= v, w <= MaxElement.  The parser *)
(* drops the size of the declarator, so the tree of the program does not   *)
(* hold n; `source' is the record of n, i, v and w.                        *)

MaxArray == 3
MaxElement == 3

\* The declaration T name[n]: parseVarDeclaration sets isArray and keeps
\* no size
ArrayDecl(typeTokens, varName) ==
    [VarDecl(typeTokens, varName, NullNode) EXCEPT !.isArray = TRUE]

ArrayProgram(src) ==
    Program(<<MainDecl(<<
        ArrayDecl(IntType, "a"),
        VarDecl(IntType, "b", Number(src.v)),
        ExprStmt(BinaryOp("=", ArraySubscript(Identifier("a"),
                                              Number(src.i)),
                          Number(src.w))),
        ReturnStmt(Identifier("b"))>>)>>)

ArraySources ==
    {src \in [n : 1..MaxArray, i : 0..(MaxArray - 1), v : 1..MaxElement,
              w : 1..MaxElement] : src.i < src.n}

InitArrays ==
    \E src \in ArraySources :
        /\ source = src
        /\ NoCompiler
        /\ LoadedFrom(Compile(ArrayProgram(src)))

SpecArrays == InitArrays /\ [][Step]_vars

\* The address the generator gave the variable `name' of the program
AddressIn(prog, name) == findSymbol(Compile(prog), name).offset

\* The addresses of the elements of a
ElementsOfA == {AddressIn(ArrayProgram(source), "a") + k :
                    k \in 0..(source.n - 1)}

\* C21: the elements a[0] .. a[n-1] of a declared array lie apart from the
\* address of every other declared variable, so that at the end of the
\* program b still holds its initial value v after the store to a[i].
C21_ArrayApartFromVariables ==
    /\ AddressIn(ArrayProgram(source), "b") \notin ElementsOfA
    /\ halted => VecGet(memory, AddressIn(ArrayProgram(source), "b"), 0)
                    = source.v


----------------------------------------------------------------------------
(* Counting loops:                                                         *)
(*   int main() { int i; int c = 0;                                        *)
(*                for (i = 0; i < n; i++) c = c + 1; return c; }           *)
(* and the loop that counts down, for (i = n; i > 0; i--), with            *)
(* 0 <= n <= MaxCount.  `source' is the record of n and the operator, of   *)
(* the addresses the generator gave i and c, and of the address of the     *)
(* jump back to the start of the loop.                                     *)

MaxCount == 3

\* x++ and x-- as the parser builds them
Postfix1(op, name) == UnaryOp(op \o "_post", Identifier(name))

Assign(name, value) == BinaryOp("=", Identifier(name), value)

LoopHead(src) ==
    IF src.op = "++"
    THEN [init |-> Number(0),
          cond |-> BinaryOp("<", Identifier("i"), Number(src.n))]
    ELSE [init |-> Number(src.n),
          cond |-> BinaryOp(">", Identifier("i"), Number(0))]

LoopProgram(src) ==
    Program(<<MainDecl(<<
        VarDecl(IntType, "i", NullNode),
        VarDecl(IntType, "c", Number(0)),
        ForStmt(ExprStmt(Assign("i", LoopHead(src).init)),
                LoopHead(src).cond,
                Postfix1(src.op, "i"),
                ExprStmt(Assign("c", BinaryOp("+", Identifier("c"),
                                              Number(1))))),
        ReturnStmt(Identifier("c"))>>)>>)

LoopSources == [n : 0..MaxCount, op : {"++", "--"}]

\* What the generator cg made of the loop program of src: the jump back
\* is the instruction before the label at the end of the loop
Compiled(src, cg) ==
    [n |-> src.n, op |-> src.op,
     i |-> findSymbol(cg, "i").offset, c |-> findSymbol(cg, "c").offset,
     back |-> LabelOf(cg, "for_end_1").address - 5]

InitLoops ==
    \E src \in LoopSources :
        /\ source = Compiled(src, Compile(LoopProgram(src)))
        /\ NoCompiler
        /\ LoadedFrom(Compile(LoopProgram(src)))

SpecLoops == InitLoops /\ [][Step]_vars

\* The value of the variable at address `at'
ValueAt(at) == VecGet(memory, at, 0)

\* The jump back to the start of the loop is about to run: the increment
\* has been evaluated and its value discarded
AfterIncrement == ~halted /\ instruction_pointer = source.back

\* The value of i after the body has run c times
Counted ==
    IF source.op = "++" THEN ValueAt(source.c)
    ELSE source.n - ValueAt(source.c)

\* C22: i++ and i-- leave i incremented or decremented, so that after the
\* increment of each round i has counted the rounds, and the program ends
\* only after the body has run exactly n times.
C22_PostfixCountsTheLoop ==
    /\ AfterIncrement => ValueAt(source.i) = Counted
    /\ halted => ValueAt(source.c) = source.n


----------------------------------------------------------------------------
(* Recursion:                                                              *)
(*   int f(int a) { int x = a; if (a) f(a - 1); return x; }                *)
(*   int main() { return f(v); }                                           *)
(* with 0 <= v <= MaxRecursion.  `source' is the record of v, of the       *)
(* address the generator gave x, and of the address of `return x'.         *)

MaxRecursion == 3

RecursiveProgram(v) ==
    Program(<<
        FunctionDecl("f", <<<<IntType, "a">>>>,
            BlockStmt(<<
                VarDecl(IntType, "x", Identifier("a")),
                IfStmt(Identifier("a"),
                       ExprStmt(CallExpr(Identifier("f"),
                                    <<BinaryOp("-", Identifier("a"),
                                               Number(1))>>)),
                       NullNode),
                ReturnStmt(Identifier("x"))>>)),
        MainDecl(<<ReturnStmt(CallExpr(Identifier("f"), <<Number(v)>>))>>)
    >>)

\* What the generator cg made of the program: `return x' begins at the
\* label at the end of the if statement
Recursive(v, cg) ==
    [v |-> v, x |-> findSymbol(cg, "x").offset,
     return |-> LabelOf(cg, "endif_1").address]

InitRecursion ==
    \E v \in 0..MaxRecursion :
        /\ source = Recursive(v, Compile(RecursiveProgram(v)))
        /\ NoCompiler
        /\ LoadedFrom(Compile(RecursiveProgram(v)))

SpecRecursion == InitRecursion /\ [][Step]_vars

\* The argument of the activation of f that is running: main runs in the
\* first call, f(v) in the second, and every further call is f(a - 1)
ArgumentOfActivation == source.v - (Len(call_stack) - 2)

\* `return x' is about to run in an activation of f
AtReturn == ~halted /\ instruction_pointer = source.return

\* C23: every activation has its own x: when `return x' runs, after the
\* recursive call has returned, x holds the value the activation stored in
\* it before the call, its argument a.
C23_LocalKeptAcrossCall ==
    AtReturn => ValueAt(source.x) = ArgumentOfActivation


----------------------------------------------------------------------------
(* Call resolution.  A function f with k parameters that returns 9 is      *)
(* defined as a free function, int f(...) { return 9; }, as a member in    *)
(* its class, class C { int f(...) { return 9; } };, or as a member       *)
(* outside it, int C::f(...) { return 9; }; main returns the call          *)
(* f(1, ..) or C::f(1, ..) with k arguments.  0 <= k <= MaxParams.         *)
(* `source' is the record of the kind of definition, of k, and of the      *)
(* address of the first instruction of f.                                  *)

MaxParams == 3

DefinitionKinds == {"free", "member", "qualified"}

\* A class as the parser builds it (src/goc/parser.h, ClassDecl)
ClassDecl(className, members) ==
    [kind |-> "CLASS_DECL", className |-> className, members |-> members]

\* int name(int a, int b, ..) { return 9; } with k parameters
Returns9(name, k) ==
    FunctionDecl(name, [i \in 1..k |-> <<IntType, ParamNames[i]>>],
                 BlockStmt(<<ReturnStmt(Number(9))>>))

\* The definition of f, and the name a call site gives it: the parser
\* makes one identifier of C :: f
Definition(kind, k) ==
    CASE kind = "free" -> Returns9("f", k)
      [] kind = "member" -> ClassDecl("C", <<Returns9("f", k)>>)
      [] kind = "qualified" -> Returns9("C::f", k)

CalledAs(kind) == IF kind = "free" THEN "f" ELSE "C::f"

ResolveProgram(kind, k) ==
    Program(<<Definition(kind, k),
              MainDecl(<<ReturnStmt(
                  CallExpr(Identifier(CalledAs(kind)),
                           [i \in 1..k |-> Number(1)]))>>)>>)

\* The label the generator defines for f
DefinitionLabel(kind, k) ==
    IF kind = "member" THEN "C::f"
    ELSE mangleFunctionName(CalledAs(kind), k)

Resolved(kind, k, cg) ==
    [kind |-> kind, k |-> k,
     entry |-> LabelOf(cg, DefinitionLabel(kind, k)).address]

InitResolve ==
    \E kind \in DefinitionKinds, k \in 0..MaxParams :
        /\ source = Resolved(kind, k, Compile(ResolveProgram(kind, k)))
        /\ NoCompiler
        /\ LoadedFrom(Compile(ResolveProgram(kind, k)))

SpecResolve == InitResolve /\ [][Step]_vars

\* main has just executed its CALL: the first call is the one of main
CalledFromMain ==
    calls.method = "step" /\ calls.op = CALL /\ Len(call_stack) = 2

\* C24: the CALL of a call site with k arguments that names a function
\* defined with k parameters, free or member, goes to the first instruction
\* of that function, never to the unresolved address 0.
C24_CallGoesToDefinition ==
    CalledFromMain =>
        instruction_pointer = source.entry /\ instruction_pointer # 0


----------------------------------------------------------------------------
(* Output chains: int main() { std::cout << a_1 << .. << a_k; return 0; }  *)
(* with 1 <= k <= MaxChain and literals a_i in 1..MaxPrinted.  `source' is *)
(* the record of the values a_i and of the addresses of the first          *)
(* instruction of the output statement and of the first after it.          *)

MaxChain == 3
MaxPrinted == 2

\* std::cout << a_1 << .. << a_k, as the parser builds it: << associates
\* to the left and std :: cout is one identifier
RECURSIVE CoutChain(_)
CoutChain(values) ==
    BinaryOp("<<",
             IF Len(values) = 1 THEN Identifier("std::cout")
             ELSE CoutChain(SubSeq(values, 1, Len(values) - 1)),
             Number(values[Len(values)]))

CoutProgram(values) ==
    Program(<<MainDecl(<<ExprStmt(CoutChain(values)),
                         ReturnStmt(Number(0))>>)>>)

\* What the generator cg made of the program.  The statement follows the
\* PUSH_BP of main; `return 0' is PUSH 0 ; POP_BP ; RET, 7 bytes, and the
\* epilogue POP_BP ; RET of main, 2 bytes, ends the code
Printed(values, cg) ==
    [values |-> values,
     before |-> LabelOf(cg, "main").address + 1,
     after |-> Len(cg.bytecode) - 9]

InitCout ==
    \E k \in 1..MaxChain :
        \E values \in [1..k -> 1..MaxPrinted] :
            /\ source = Printed(values, Compile(CoutProgram(values)))
            /\ NoCompiler
            /\ LoadedFrom(Compile(CoutProgram(values)))

SpecCout == InitCout /\ [][Step]_vars

\* The depth of the stack when the output statement begins: main has
\* pushed the saved base pointer
DepthBeforeStatement == 1

\* C25: the statement std::cout << a_1 << .. << a_k; leaves the depth of
\* the stack as it found it, for every k >= 1.
C25_CoutChainKeepsDepth ==
    /\ instruction_pointer = source.before
          => Len(stack) = DepthBeforeStatement
    /\ instruction_pointer = source.after
          => Len(stack) = DepthBeforeStatement


----------------------------------------------------------------------------
(* Template arguments: the source text is `a<' followed by one to MaxInner *)
(* characters a, <, > and space, followed by ` a;'.  `source' is the       *)
(* sequence of the characters in between.                                  *)

MaxInner == 6
MaxNesting == 3

TemplateChars == {"a", "<", ">", " "}

TemplateSources == UNION {[1..n -> TemplateChars] : n \in 1..MaxInner}

\* The source text of a program of the family
TemplateProgram(inner) == <<"a", "<">> \o inner \o <<" ", "a", ";">>

InitTemplates ==
    /\ source \in TemplateSources
    /\ lexer = Lexer(TemplateProgram(source))
    /\ parser = NoParser
    /\ parsed = NullNode
    /\ Holds(NewVM, Call("new", -1, -1))

SpecTemplates == InitTemplates /\ [][Tokenize \/ Parse]_vars

RECURSIVE TypeNames(_)
\* The type names a, a<T> and a<T >, T a type name, nested up to d deep,
\* as sequences of characters
TypeNames(d) ==
    IF d = 0 THEN {<<"a">>}
    ELSE {<<"a">>} \cup
         {<<"a", "<">> \o t \o close :
             t \in TypeNames(d - 1), close \in {<<">">>, <<" ", ">">>}}

\* The source is `T a;' for a type name T = a<...>: every < has its >
EveryCloser == <<"a", "<">> \o source \in TypeNames(MaxNesting)

\* The source is `T a;' for a type name T whose last > is missing
MissingCloser ==
    \E close \in {<<">">>, <<" ", ">">>} :
        <<"a", "<">> \o source \o close \in TypeNames(MaxNesting)

RECURSIVE Unspaced(_)
\* The text without its spaces, as a string
Unspaced(text) ==
    IF text = <<>> THEN ""
    ELSE IF Head(text) = " " THEN Unspaced(Tail(text))
    ELSE Head(text) \o Unspaced(Tail(text))

\* The program is the declaration of a variable a of the type `type'
DeclaresOfType(type) ==
    /\ ~parser.thrown
    /\ Len(parsed.top) = 1
    /\ parsed.top[1].kind = "VAR_DECL"
    /\ parsed.top[1].varName = "a"
    /\ parsed.top[1].typeTokens = <<type>>

\* C26: after the < that follows a type name, parseType consumes the
\* tokens through the matching > and no token beyond it, also when two
\* closing > stand next to each other, so that `T a;' declares a with the
\* type T; a < without its > is a parse error.
C26_TemplateArgumentsMatched ==
    ParseDone =>
        /\ EveryCloser => DeclaresOfType(Unspaced(<<"a", "<">> \o source))
        /\ MissingCloser => parser.thrown

----------------------------------------------------------------------------
(* Comments between the tokens: the words of a program, one space between  *)
(* them, with up to MaxComments comments written before the word after     *)
(* position `at'.  `expected' is what parseProgram() returns on the tokens *)
(* of the text with the COMMENT tokens taken out, which keep their lines   *)
(* and columns.                                                            *)

MaxComments == 2

\* The programs, word by word, each word character by character
CommentPrograms ==
    << << <<"i", "f">>, <<"(">>, <<"a">>, <<")">>, <<"{">>, <<"a">>, <<";">>,
          <<"}">> >>,
       << <<"w", "h", "i", "l", "e">>, <<"(">>, <<"a">>, <<")">>, <<"{">>,
          <<"a">>, <<";">>, <<"}">> >>,
       << <<"f", "o", "r">>, <<"(">>, <<";">>, <<";">>, <<")">>, <<"{">>,
          <<"a">>, <<";">>, <<"}">> >>,
       << <<"i", "n", "t">>, <<"f">>, <<"(">>, <<")">>, <<"{">>, <<"a">>,
          <<";">>, <<"}">> >>,
       << <<"i", "n", "t">>, <<"a">>, <<"=">>, <<"1">>, <<";">> >>,
       << <<"a">>, <<"=">>, <<"a">>, <<"+">>, <<"1">>, <<";">> >> >>

CommentKinds == {"block", "line"}

\* The characters of a comment
CommentChars(kind) ==
    IF kind = "block" THEN <<"/", "*", "c", "*", "/">>
    ELSE <<"/", "/", "c", "\n">>

RECURSIVE Comments(_, _)
\* n comments, a space before each
Comments(kind, n) ==
    IF n = 0 THEN <<>>
    ELSE <<" ">> \o CommentChars(kind) \o Comments(kind, n - 1)

RECURSIVE Commented(_, _, _)
\* The text of the words, a space before each, the comments of src before
\* the word after position src.at, or at the end
Commented(words, i, src) ==
    (IF i = src.at THEN Comments(src.kind, src.n) ELSE <<>>)
        \o (IF i = Len(words) THEN <<>>
            ELSE <<" ">> \o words[i + 1] \o Commented(words, i + 1, src))

\* The source text of a program of the family
CommentProgram(src) == Commented(CommentPrograms[src.program], 0, src)

CommentSources ==
    {src \in [program : DOMAIN CommentPrograms, at : 0..9,
              kind : CommentKinds, n : 0..MaxComments] :
        src.at <= Len(CommentPrograms[src.program])}

\* The tokens that are not comments
Uncommented(toks) == SelectSeq(toks, LAMBDA t : t.type # "COMMENT")

\* parseProgram() on the tokens of the text without its COMMENT tokens
WithoutComments(text) ==
    parseProgram(Parser(Uncommented(tokenize(Lexer(text)).tokens)))

InitComments ==
    /\ \E src \in CommentSources :
          source = src @@ [expected |-> WithoutComments(CommentProgram(src))]
    /\ lexer = Lexer(CommentProgram(source))
    /\ parser = NoParser
    /\ parsed = NullNode
    /\ Holds(NewVM, Call("new", -1, -1))

SpecComments == InitComments /\ [][Tokenize \/ Parse]_vars

\* C27: a token stream that parses without its COMMENT tokens parses with
\* them, wherever they stand, and to the same tree.
C27_CommentsTransparent ==
    ParseDone /\ ~source.expected.p.thrown =>
        ~parser.thrown /\ parsed = source.expected.node

----------------------------------------------------------------------------
(* Integer arithmetic on the whole range:  PUSH a; PUSH b; op; HALT  for   *)
(* the five arithmetic opcodes and operands at the ends of the int32_t     *)
(* range, at the 16-bit carry and around 0.                                *)

MaxOperand == 3

ArithOps == {ADD, SUB, MUL, DIV, MOD}

ArithValues ==
    {MinInt32, MinInt32 + 1, MaxInt32 - 1, MaxInt32, 65536, 46341}
        \cup (0 - MaxOperand)..MaxOperand

ArithSources == [op : ArithOps, a : ArithValues, b : ArithValues]

InitArith ==
    \E src \in ArithSources :
        AssembledInit(src, <<<<PUSH, src.a>>, <<PUSH, src.b>>, <<src.op>>,
                             <<HALT>>>>)

SpecArith == InitArith /\ [][Step]_vars

\* x + y is an int32_t
SumFits(x, y) ==
    IF x >= 0 THEN y <= MaxInt32 - x ELSE y >= MinInt32 - x

\* x + y reduced modulo 2^32 into the int32_t range
WrappedSum(x, y) ==
    IF SumFits(x, y) THEN x + y
    ELSE IF x >= 0 THEN ((x - MaxInt32) - 1) + ((y - MaxInt32) - 1)
    ELSE ((x + MaxInt32) + 1) + ((y + MaxInt32) + 1)

\* x - y reduced modulo 2^32 into the int32_t range
WrappedDifference(x, y) ==
    IF y = MinInt32
    THEN IF x >= 0 THEN (x - MaxInt32) - 1 ELSE (x + MaxInt32) + 1
    ELSE WrappedSum(x, 0 - y)

\* -|x|, which is an int32_t for every int32_t x
NegAbs(x) == IF x > 0 THEN 0 - x ELSE x

\* x * y is an int32_t
ProductFits(x, y) ==
    \/ x = 0 \/ y = 0 \/ x = 1 \/ y = 1
    \/ /\ x # MinInt32 /\ y # MinInt32 /\ x # -1 /\ y # -1
       /\ (0 - NegAbs(x)) <= MaxInt32 \div (0 - NegAbs(y))
    \/ (x = -1 /\ y # MinInt32) \/ (y = -1 /\ x # MinInt32)

\* The low 15 bits of x * y
LowProduct(x, y) == ((x % 32768) * (y % 32768)) % 32768

\* The results the claim allows: the exact value reduced modulo 2^32 for
\* + - *, and the quotient truncated toward zero or its remainder for / %
\* when it is an int32_t (INT_MIN / -1 is 2^31, which is none; its
\* remainder is 0)
Allowed(op, a, b) ==
    CASE op = ADD -> {WrappedSum(a, b)}
      [] op = SUB -> {WrappedDifference(a, b)}
      [] op = MUL ->
            IF ProductFits(a, b) THEN {a * b}
            ELSE {v \in {Mul32(a, b)} :
                     v \in Int32Range /\ v % 32768 = LowProduct(a, b)}
      [] op = DIV ->
            IF DivOverflows(a, b) THEN {} ELSE {TruncDiv(a, b)}
      [] op = MOD ->
            IF DivOverflows(a, b) THEN {0} ELSE {TruncRem(a, b)}

\* The arithmetic instruction of the program has just been executed
ArithDone == calls.op = source.op \/ calls.method = "killed"

\* C28: for every a and b, b # 0 for DIV and MOD, the instruction raises no
\* error and leaves the one allowed result on the stack: the wrapped sum,
\* difference or product, the truncated quotient or its remainder.
C28_ArithmeticOnWholeRange ==
    ArithDone /\ (source.op \in {DIV, MOD} => source.b # 0) =>
        /\ calls.method = "step"
        /\ ~error_flag
        /\ Len(stack) = 1
        /\ Top(stack) \in Allowed(source.op, source.a, source.b)

----------------------------------------------------------------------------
(* Instructions that raise an error: up to MaxPrefix instructions that     *)
(* push and store, then one instruction that may find too few operands on  *)
(* the stack, or an instruction with the first `cut' bytes of its operand  *)
(* at the end of the file.                                                 *)

MaxPrefix == 3

PrefixPool == {<<PUSH, 9>>, <<PUSH, 0>>, <<STORE>>}

\* The instructions the stack may be too short for; JZ goes to address 0
UnderflowPool == {<<ADD>>, <<STORE>>, <<STORE_INDIRECT>>, <<JZ, 0>>}

\* The instructions with an operand that may be cut short
TruncatedPool == {<<PUSH, 9>>, <<JMP, 0>>}

FaultSources ==
    [prefix : UNION {[1..k -> PrefixPool] : k \in 0..MaxPrefix},
     last : UnderflowPool, cut : {4}]
      \cup [prefix : UNION {[1..k -> PrefixPool] : k \in 0..MaxPrefix},
            last : TruncatedPool, cut : 0..3]

\* The file: the last instruction is followed by HALT unless it is cut short
FaultCode(src) ==
    IF src.cut = 4
    THEN Assemble(src.prefix \o <<src.last, <<HALT>>>>)
    ELSE Assemble(src.prefix) \o <<src.last[1]>>
            \o SubSeq(Int32Bytes(src.last[2]), 1, src.cut)

InitFaults ==
    \E src \in FaultSources :
        /\ source = src
        /\ NoCompiler
        /\ Holds(Loaded(FaultCode(src), <<>>, <<>>), Call("load", -1, -1))

SpecFaults == InitFaults /\ [][Step]_vars

\* The number of bytes of the instruction with the opcode
WidthOf(op) == IF op \in {PUSH, JMP, JZ} THEN 5 ELSE 1

\* step() raises the error in this step
Raises(msg) == ~error_flag /\ error_flag' /\ error_message' = msg

\* C29: a step that raises a stack underflow leaves the stack empty, as
\* pop() found it, and one that raises a truncated operand leaves the stack
\* as it was; neither writes static or heap memory, and the instruction
\* pointer is left where the reads of the instruction left it: after the
\* instruction for an underflow, after the opcode for a truncated operand.
C29_NoChangeAfterError ==
    [][/\ Raises("Stack underflow") =>
            /\ stack' = <<>>
            /\ memory' = memory
            /\ heap' = heap
            /\ instruction_pointer' = calls'.at + WidthOf(calls'.op)
       /\ Raises("Unexpected end of bytecode reading int32") =>
            /\ stack' = stack
            /\ memory' = memory
            /\ heap' = heap
            /\ instruction_pointer' = calls'.at + 1]_vars

----------------------------------------------------------------------------
(* Calls on a halted VM: one to MaxHalting instructions that push, pop,    *)
(* divide, halt, jump past the end of the code or are no instruction.  No  *)
(* jump goes backwards, so run() returns on every program; step() and      *)
(* run() are called in any order, also after the VM has halted.            *)

MaxHalting == 3

\* No opcode of VMOpcode
UnknownOpcode == 200

HaltingPool ==
    {<<PUSH, 1>>, <<PUSH, 0>>, <<POP>>, <<DIV>>, <<HALT>>, <<JZ, 99>>,
     <<UnknownOpcode>>}

InitHalting ==
    \E l \in ListingsOf(HaltingPool, MaxHalting) : AssembledInit(l, l)

RECURSIVE run(_, _)
\* VirtualMachine::run: while (!halted && !error_flag) step();
run(vm, ub) ==
    IF vm.halted \/ vm.error_flag \/ ~vm.alive THEN vm
    ELSE run(step(vm, ub), ub)

\* run() is called
Run ==
    /\ calls.method # "killed"
    /\ \E ub \in UBOutcomes : Becomes(run(VM, ub), Call("run", -1, -1))
    /\ UNCHANGED compiler

SpecHalting == InitHalting /\ [][Step \/ Run]_vars

\* C30: error_flag implies halted in every reachable state, and a call of
\* step() or run() on a halted VM changes no field of the VM.
C30_HaltingAbsorbing ==
    /\ [](error_flag => halted)
    /\ [][halted => VM' = VM]_vars

\* C30 witness: step() has been called on a VM that HALT had halted, after
\* at least one instruction, and has dispatched nothing
C30_Witness ==
    /\ halted
    /\ ~error_flag
    /\ instruction_count > 0
    /\ calls = Call("step", -1, -1)

============================================================================
